---- MODULE Spec2Model ----
(***************************************************************************)
(* Model of the airport directory cache (airports/services.py and          *)
(* airports/cache_service.py) and of the flight search view                *)
(* (flights/views.py).                                                     *)
(*                                                                         *)
(* The repository holds two classes named AirportCacheService.  The one in *)
(* airports/services.py is the one imported by the view, the importer and  *)
(* the tests; the one in airports/cache_service.py is the variant with the *)
(* bulk fallback.  `variant` selects which class the deployment uses.      *)
(***************************************************************************)
EXTENDS Integers, Sequences, FiniteSets, TLC

VARIABLES variant, configured, default_timeout, store, last, inflight

vars == <<variant, configured, default_timeout, store, last, inflight>>

(***************************************************************************)
(* Bounds of the model.                                                    *)
(***************************************************************************)
MaxInputLen == 2
NumCities == 1

(***************************************************************************)
(* Strings are sequences of one-character strings.                         *)
(***************************************************************************)
Alphabet == {"a", "A", " "}

\* the strings a caller may pass as a code: every short string over the
\* alphabet, and the second code of the directory
InputStrings == UNION {[1..n -> Alphabet] : n \in 0..MaxInputLen} \cup {<<"B">>}

\* str.upper(), character by character
UpperChar(c) == CASE c = "a" -> "A"
                  [] c = "b" -> "B"
                  [] OTHER   -> c

upper(s) == [i \in 1..Len(s) |-> UpperChar(s[i])]

IsSpace(c) == c = " "

\* str.strip(): the substring between the first and the last non-blank
\* character, empty when there is none
strip(s) ==
    LET nb == {i \in 1..Len(s) : ~IsSpace(s[i])}
    IN  IF nb = {} THEN <<>>
        ELSE LET lo == CHOOSE i \in nb : \A j \in nb : i <= j
                 hi == CHOOSE i \in nb : \A j \in nb : j <= i
             IN  SubSeq(s, lo, hi)

\* a normalization that trims and keeps the letter case
NormalizeIata_keeps_case(s) == strip(s)

\* iata.upper().strip()
NormalizeIata(s) == strip(upper(s))

(***************************************************************************)
(* Airport records and directories.                                        *)
(***************************************************************************)
Codes == {<<"A">>, <<"B">>}

Cities == 1..NumCities

\* a record with the five fields of the data model
FullRecord(c, n) == [iata |-> c, city |-> n, lat |-> 0, lon |-> 0, state |-> "S"]

\* a record of the upstream API that lacks lat, lon and state
PartialRecord(c) == [iata |-> c, city |-> 1]

RecordsOf(c) == {FullRecord(c, n) : n \in Cities} \cup {PartialRecord(c)}

Records == UNION {RecordsOf(c) : c \in Codes}

\* the mappings code -> record handed to cache_airports_data
Directories ==
    UNION {{m \in [D -> Records] : \A c \in D : m[c] \in RecordsOf(c)} : D \in SUBSET Codes}

RequiredFields == {"iata", "city", "lat", "lon", "state"}

HasRequiredFields(r) == RequiredFields \subseteq DOMAIN r

\* Python truthiness of a dict
Truthy(d) == DOMAIN d # {}

(***************************************************************************)
(* Deployment settings read by __init__.                                   *)
(***************************************************************************)
Variants == {"services", "cache_service"}

\* a number of seconds, or the non-numeric value a misread setting yields
Seconds(n) == [isnum |-> TRUE, n |-> n]

KeyString == [isnum |-> FALSE, n |-> 0]

\* the `timeout=None` argument of cache_airports_data
NoTimeout == Seconds(0)

\* settings.CACHE_TIMEOUTS['AIRPORTS_DATA'] when it is configured
ConfiguredTimeout == 7200

\* an explicit timeout argument, as in the tests' timeout=3600
ExplicitTimeout == 3600

TimeoutArgs == {NoTimeout, Seconds(ExplicitTimeout)}

\* a cache key: the configured prefix and, for a per-code key, ":" + code
Key(prefix, tail) == <<prefix, tail>>

\* self.airports_data_key
airports_data_key(v, cfg) ==
    IF cfg THEN Key("cfg:airports_data", <<>>)
    ELSE IF v = "services" THEN Key("", <<>>)
    ELSE Key("airports:data:v1", <<>>)

\* self.last_sync_key
last_sync_key(v, cfg) ==
    IF cfg THEN Key("cfg:airports_last_sync", <<>>)
    ELSE IF v = "services" THEN Key("", <<>>)
    ELSE Key("airports:last_sync:v1", <<>>)

\* self.airports_by_iata_key
airports_by_iata_key(v, cfg) ==
    IF cfg THEN "cfg:airports_by_iata"
    ELSE IF v = "services" THEN ""
    ELSE "airports:by_iata:v1"

\* one key for the entries of all codes
individual_key_shared(v, cfg, iata) == Key(airports_by_iata_key(v, cfg), <<>>)

\* f"{self.airports_by_iata_key}:{iata}"
individual_key(v, cfg, iata) == Key(airports_by_iata_key(v, cfg), <<":">> \o iata)

\* self.default_timeout as __init__ leaves it
InitDefaultTimeout(v, cfg) ==
    IF v = "services"
    THEN IF cfg THEN Seconds(ConfiguredTimeout) ELSE Seconds(24 * 60)
    ELSE IF cfg THEN KeyString ELSE Seconds(24 * 60 * 60)

\* self.default_timeout as cache_airports_data of services.py reassigns it
ReassignedDefaultTimeout(cfg) ==
    IF cfg THEN Seconds(ConfiguredTimeout) ELSE Seconds(24 * 60 * 60)

(***************************************************************************)
(* The cache store: a mapping from the keys present to their blobs.        *)
(***************************************************************************)
SetOutcomes == {"ok", "false", "raise"}

GetOutcomes == {"ok", "raise"}

\* json.dumps(x): a JSON text
json_dumps(x) == [kind |-> "json", val |-> x]

\* a dict handed to the store as it is (pickled by the backend)
raw(x) == [kind |-> "raw", val |-> x]

\* timezone.now().isoformat(): a string that is not a JSON text
isoformat == [kind |-> "str", val |-> <<>>]

\* json.loads(b) raises unless b is a JSON text
json_loads_raises(b) == b.kind # "json"

json_loads(b) == b.val

\* truthiness of what cache.get returned: a non-empty string, or a dict
BlobTruthy(b) == IF b.kind = "raw" THEN Truthy(b.val) ELSE TRUE

None == [absent |-> TRUE, val |-> <<>>]

Some(v) == [absent |-> FALSE, val |-> v]

Present(st, k) == k \in DOMAIN st

Put(st, k, b) == [j \in DOMAIN st \cup {k} |-> IF j = k THEN b ELSE st[j]]

Remove(st, k) == [j \in DOMAIN st \ {k} |-> st[j]]

\* a cache.set call: "raise", "true" or "false"
SetResult(timeout, out) ==
    IF ~timeout.isnum \/ out = "raise" THEN "raise"
    ELSE IF out = "ok" THEN "true" ELSE "false"

\* the effect of cache.set(k, b, timeout) on the store and on the call log
CacheSet(s, k, b, timeout, out) ==
    IF SetResult(timeout, out) = "true"
    THEN [store |-> Put(s.store, k, b), written |-> s.written \cup {k},
          timeouts |-> s.timeouts \cup {timeout}]
    ELSE [s EXCEPT !.timeouts = @ \cup {timeout}]

Begin(st) == [store |-> st, written |-> {}, timeouts |-> {}]

\* Python: timeout or self.default_timeout
TimeoutOr(timeout, dflt) == IF timeout.isnum /\ timeout.n = 0 THEN dflt ELSE timeout

(***************************************************************************)
(* AirportCacheService of airports/services.py.                            *)
(***************************************************************************)
\* the orders in which a dict with the keys of R can be iterated
Orders(R) ==
    {o \in [1..Cardinality(DOMAIN R) -> DOMAIN R] :
        \A i, j \in DOMAIN o : i # j => o[i] # o[j]}

RECURSIVE services_individual_loop(_, _, _, _, _, _, _)
\* the for loop of _cache_individual_airports from position i on; a raising
\* cache.set leaves the loop (the exception is caught around the loop)
services_individual_loop(s, cfg, R, order, outs, timeout, i) ==
    IF i > Len(order) THEN s
    ELSE LET iata == order[i]
             key  == individual_key("services", cfg, iata)
         IN  IF ~HasRequiredFields(R[iata])
             THEN services_individual_loop(s, cfg, R, order, outs, timeout, i + 1)
             ELSE IF SetResult(timeout, outs[iata]) = "raise"
             THEN [s EXCEPT !.timeouts = @ \cup {timeout}]
             ELSE services_individual_loop(
                      CacheSet(s, key, json_dumps(R[iata]), timeout, outs[iata]),
                      cfg, R, order, outs, timeout, i + 1)

services_cache_individual_airports(s, cfg, R, order, outs, timeout) ==
    services_individual_loop(s, cfg, R, order, outs, timeout, 1)

\* cache_airports_data writing the timestamp first and the snapshot after it
services_cache_airports_data_sync_first(st, cfg, dflt, R, timeoutArg, f) ==
    LET timeout == TimeoutOr(timeoutArg, dflt)
        s1 == CacheSet(Begin(st), last_sync_key("services", cfg), isoformat, timeout, f.sync)
        s2 == CacheSet(s1, airports_data_key("services", cfg), json_dumps(R),
                       timeout, f.bulk)
        s3 == services_cache_individual_airports(s2, cfg, R, f.order, f.ind, timeout)
    IN  IF SetResult(timeout, f.sync) = "raise" THEN [s |-> s1, ret |-> FALSE]
        ELSE IF SetResult(timeout, f.bulk) # "true" THEN [s |-> s2, ret |-> FALSE]
        ELSE [s |-> s3, ret |-> TRUE]

\* cache_airports_data without the test of `success`: the individual entries
\* and the timestamp are written whatever the bulk write returned
services_cache_airports_data_unguarded(st, cfg, dflt, R, timeoutArg, f) ==
    LET timeout == TimeoutOr(timeoutArg, dflt)
        s1 == CacheSet(Begin(st), airports_data_key("services", cfg), json_dumps(R),
                       timeout, f.bulk)
        s2 == services_cache_individual_airports(s1, cfg, R, f.order, f.ind, timeout)
        s3 == CacheSet(s2, last_sync_key("services", cfg), isoformat, timeout, f.sync)
    IN  IF SetResult(timeout, f.bulk) = "raise" \/ SetResult(timeout, f.sync) = "raise"
        THEN [s |-> s1, ret |-> FALSE]
        ELSE [s |-> s3, ret |-> TRUE]

\* f is the behaviour of the store during the call: f.bulk and f.sync are
\* the outcomes of the two cache.set calls, f.ind the outcome per code and
\* f.order the iteration order of the dict
services_cache_airports_data(st, cfg, dflt, R, timeoutArg, f) ==
    LET timeout == TimeoutOr(timeoutArg, dflt)
        s0 == Begin(st)
        s1 == CacheSet(s0, airports_data_key("services", cfg), json_dumps(R),
                       timeout, f.bulk)
        s2 == services_cache_individual_airports(s1, cfg, R, f.order, f.ind, timeout)
        s3 == CacheSet(s2, last_sync_key("services", cfg), isoformat, timeout, f.sync)
    IN  CASE SetResult(timeout, f.bulk) = "raise" -> [s |-> s1, ret |-> FALSE]
          [] SetResult(timeout, f.bulk) = "false" -> [s |-> s1, ret |-> FALSE]
          [] OTHER ->
               IF SetResult(timeout, f.sync) = "raise"
               THEN [s |-> s3, ret |-> FALSE]
               ELSE [s |-> s3, ret |-> TRUE]

\* get_airports_data handing out whatever json.loads is given, JSON or not
services_get_airports_data_unchecked(st, cfg, g) ==
    LET key == airports_data_key("services", cfg)
    IN  IF g = "raise" THEN [s |-> Begin(st), ret |-> None]
        ELSE IF Present(st, key) /\ BlobTruthy(st[key])
        THEN [s |-> Begin(st), ret |-> Some(json_loads(st[key]))]
        ELSE [s |-> Begin(st), ret |-> None]

\* g is the outcome of cache.get
services_get_airports_data(st, cfg, g) ==
    LET key == airports_data_key("services", cfg)
    IN  IF g = "raise" THEN [s |-> Begin(st), ret |-> None]
        ELSE IF Present(st, key) /\ BlobTruthy(st[key])
        THEN IF json_loads_raises(st[key]) THEN [s |-> Begin(st), ret |-> None]
             ELSE [s |-> Begin(st), ret |-> Some(json_loads(st[key]))]
        ELSE [s |-> Begin(st), ret |-> None]

\* get_airport_by_iata renewing the entry it hits
services_get_airport_by_iata_touching(st, cfg, code, g) ==
    LET iata == NormalizeIata(code)
        key  == individual_key("services", cfg, iata)
    IN  IF g.ind = "raise"
        THEN [s |-> Begin(st), ret |-> None, path |-> "error"]
        ELSE IF Present(st, key) /\ BlobTruthy(st[key])
        THEN IF json_loads_raises(st[key])
             THEN [s |-> Begin(st), ret |-> None, path |-> "error"]
             ELSE [s |-> CacheSet(Begin(st), key, st[key], Seconds(ExplicitTimeout), "ok"),
                   ret |-> Some(json_loads(st[key])), path |-> "hit"]
        ELSE [s |-> Begin(st), ret |-> None, path |-> "miss"]

services_get_airport_by_iata(st, cfg, code, g) ==
    LET iata == NormalizeIata(code)
        key  == individual_key("services", cfg, iata)
    IN  IF g.ind = "raise"
        THEN [s |-> Begin(st), ret |-> None, path |-> "error"]
        ELSE IF Present(st, key) /\ BlobTruthy(st[key])
        THEN IF json_loads_raises(st[key])
             THEN [s |-> Begin(st), ret |-> None, path |-> "error"]
             ELSE [s |-> Begin(st), ret |-> Some(json_loads(st[key])), path |-> "hit"]
        ELSE [s |-> Begin(st), ret |-> None, path |-> "miss"]

(***************************************************************************)
(* AirportCacheService of airports/cache_service.py.                       *)
(***************************************************************************)
\* cache.set_many writes the entries of the codes in `many`; what it
\* returns is ignored and what it raises is caught
cache_service_cache_individual_airports(s, cfg, R, many, timeout) ==
    IF ~timeout.isnum THEN [s EXCEPT !.timeouts = @ \cup {timeout}]
    ELSE LET ks == {individual_key("cache_service", cfg, c) : c \in many}
         IN  [store |-> [k \in DOMAIN s.store \cup ks |->
                            IF k \in ks
                            THEN raw(R[CHOOSE c \in many :
                                         individual_key("cache_service", cfg, c) = k])
                            ELSE s.store[k]],
              written |-> s.written \cup ks,
              timeouts |-> s.timeouts \cup {timeout}]

\* cache_airports_data with a _cache_individual_airports that lets the
\* exception of set_many through: the call fails when set_many raises
cache_service_cache_airports_data_uncaught(st, cfg, dflt, R, timeoutArg, f) ==
    LET timeout == TimeoutOr(timeoutArg, dflt)
        s1 == CacheSet(Begin(st), airports_data_key("cache_service", cfg), raw(R),
                       timeout, f.bulk)
        s2 == cache_service_cache_individual_airports(s1, cfg, R, f.many, timeout)
        s3 == CacheSet(s2, last_sync_key("cache_service", cfg), isoformat,
                       timeout, f.sync)
    IN  IF SetResult(timeout, f.bulk) # "true" THEN [s |-> s1, ret |-> FALSE]
        ELSE IF f.many_out = "raise" THEN [s |-> s2, ret |-> FALSE]
        ELSE IF SetResult(timeout, f.sync) = "raise" THEN [s |-> s3, ret |-> FALSE]
        ELSE [s |-> s3, ret |-> TRUE]

cache_service_cache_airports_data(st, cfg, dflt, R, timeoutArg, f) ==
    LET timeout == TimeoutOr(timeoutArg, dflt)
        s0 == Begin(st)
        s1 == CacheSet(s0, airports_data_key("cache_service", cfg), raw(R),
                       timeout, f.bulk)
        s2 == cache_service_cache_individual_airports(s1, cfg, R, f.many, timeout)
        s3 == CacheSet(s2, last_sync_key("cache_service", cfg), isoformat,
                       timeout, f.sync)
    IN  CASE SetResult(timeout, f.bulk) = "raise" -> [s |-> s1, ret |-> FALSE]
          [] SetResult(timeout, f.bulk) = "false" -> [s |-> s1, ret |-> FALSE]
          [] OTHER ->
               IF SetResult(timeout, f.sync) = "raise"
               THEN [s |-> s3, ret |-> FALSE]
               ELSE [s |-> s3, ret |-> TRUE]

cache_service_get_airports_data(st, cfg, g) ==
    LET key == airports_data_key("cache_service", cfg)
    IN  IF g = "raise" THEN [s |-> Begin(st), ret |-> None]
        ELSE IF Present(st, key) /\ BlobTruthy(st[key])
        THEN [s |-> Begin(st), ret |-> Some(st[key].val)]
        ELSE [s |-> Begin(st), ret |-> None]

\* get_airport_by_iata remembering a miss under the individual key
cache_service_get_airport_by_iata_negative(st, cfg, dflt, code, g) ==
    LET iata == NormalizeIata(code)
        key  == individual_key("cache_service", cfg, iata)
        all_airports == cache_service_get_airports_data(st, cfg, g.bulk).ret
    IN  IF g.ind = "raise"
        THEN [s |-> Begin(st), ret |-> None, path |-> "error"]
        ELSE IF Present(st, key) /\ BlobTruthy(st[key])
        THEN [s |-> Begin(st), ret |-> Some(st[key].val), path |-> "hit"]
        ELSE IF ~all_airports.absent /\ iata \in DOMAIN all_airports.val
        THEN LET airport_data == all_airports.val[iata]
                 s1 == CacheSet(Begin(st), key, raw(airport_data), dflt, g.fill)
             IN  IF SetResult(dflt, g.fill) = "raise"
                 THEN [s |-> s1, ret |-> None, path |-> "error"]
                 ELSE [s |-> s1, ret |-> Some(airport_data), path |-> "backfill"]
        ELSE [s |-> CacheSet(Begin(st), key, raw(<<>>), Seconds(ExplicitTimeout), "ok"),
              ret |-> None,
              path |-> IF g.bulk = "raise" THEN "error" ELSE "miss"]

\* g.ind and g.bulk are the outcomes of the two cache.get calls, g.fill the
\* outcome of the cache.set that backfills the individual entry
cache_service_get_airport_by_iata(st, cfg, dflt, code, g) ==
    LET iata == NormalizeIata(code)
        key  == individual_key("cache_service", cfg, iata)
        all_airports == cache_service_get_airports_data(st, cfg, g.bulk).ret
    IN  IF g.ind = "raise"
        THEN [s |-> Begin(st), ret |-> None, path |-> "error"]
        ELSE IF Present(st, key) /\ BlobTruthy(st[key])
        THEN [s |-> Begin(st), ret |-> Some(st[key].val), path |-> "hit"]
        ELSE IF ~all_airports.absent /\ iata \in DOMAIN all_airports.val
        THEN LET airport_data == all_airports.val[iata]
                 s1 == CacheSet(Begin(st), key, raw(airport_data), dflt, g.fill)
             IN  IF SetResult(dflt, g.fill) = "raise"
                 THEN [s |-> s1, ret |-> None, path |-> "error"]
                 ELSE [s |-> s1, ret |-> Some(airport_data), path |-> "backfill"]
        ELSE [s |-> Begin(st), ret |-> None,
              path |-> IF g.bulk = "raise" THEN "error" ELSE "miss"]

(***************************************************************************)
(* The calls of cache_service.py one store operation at a time, as they    *)
(* run when another call is in progress.                                   *)
(***************************************************************************)
\* timezone.now().isoformat() when the clock reads `now`
isoformat_at(now) == [kind |-> "str", val |-> <<now>>]

\* a cache_airports_data in progress: the statement it is at, its
\* arguments, the codes set_many has still to write and, when it is done,
\* what it returned
PutCall(pc, R, t, todo, ret) == [pc |-> pc, R |-> R, t |-> t, todo |-> todo, ret |-> ret]

\* a get_airport_by_iata in progress: the statement it is at, its argument,
\* the record it took from the bulk snapshot and, when it is done, what it
\* returned
GetCall(pc, code, found, ret) == [pc |-> pc, code |-> code, found |-> found, ret |-> ret]

NoPut == PutCall("idle", <<>>, NoTimeout, {}, FALSE)

NoGet == GetCall("idle", <<>>, <<>>, None)

\* a call and the store it leaves
Step(call, st) == [call |-> call, store |-> st]

\* the bulk cache.set: it raises on a timeout that is no number, and the
\* call returns False; else set_many is next, or the timestamp when the
\* directory is empty
put_bulk_step(p, st, cfg, dflt) ==
    LET timeout == TimeoutOr(p.t, dflt)
    IN  IF ~timeout.isnum
        THEN Step(PutCall("done", p.R, p.t, {}, FALSE), st)
        ELSE Step(PutCall(IF DOMAIN p.R = {} THEN "sync" ELSE "many",
                          p.R, p.t, DOMAIN p.R, FALSE),
                  Put(st, airports_data_key("cache_service", cfg), raw(p.R)))

\* set_many writes the entry of code c, one of those it has still to write
put_many_step(p, st, cfg, c) ==
    Step(PutCall(IF p.todo = {c} THEN "sync" ELSE "many", p.R, p.t, p.todo \ {c}, FALSE),
         Put(st, individual_key("cache_service", cfg, c), raw(p.R[c])))

\* set_many raises: the entries it has not written stay unwritten
put_many_raise_step(p, st) == Step(PutCall("sync", p.R, p.t, {}, FALSE), st)

\* the cache.set of the timestamp, and `return True`
put_sync_step(p, st, cfg, now) ==
    Step(PutCall("done", p.R, p.t, {}, TRUE),
         Put(st, last_sync_key("cache_service", cfg), isoformat_at(now)))

\* cache.get(cache_key) and `if airport_data:`
get_individual_step(q, st, cfg) ==
    LET key == individual_key("cache_service", cfg, NormalizeIata(q.code))
    IN  IF Present(st, key) /\ BlobTruthy(st[key])
        THEN Step(GetCall("done", q.code, <<>>, Some(st[key].val)), st)
        ELSE Step(GetCall("bulk", q.code, <<>>, None), st)

\* self.get_airports_data() and `if all_airports and iata in all_airports:`
get_bulk_step(q, st, cfg) ==
    LET iata == NormalizeIata(q.code)
        all_airports == cache_service_get_airports_data(st, cfg, "ok").ret
    IN  IF ~all_airports.absent /\ iata \in DOMAIN all_airports.val
        THEN Step(GetCall("fill", q.code, all_airports.val[iata], None), st)
        ELSE Step(GetCall("done", q.code, <<>>, None), st)

\* the backfill storing under the key of the code the record it took from
\* the snapshot without its city
get_fill_step_record_cut(q, st, cfg, dflt) ==
    LET key == individual_key("cache_service", cfg, NormalizeIata(q.code))
        cut == [x \in DOMAIN q.found \ {"city"} |-> q.found[x]]
    IN  IF ~dflt.isnum
        THEN Step(GetCall("done", q.code, q.found, None), st)
        ELSE Step(GetCall("done", q.code, q.found, Some(cut)), Put(st, key, raw(cut)))

\* the backfill cache.set and `return airport_data`; the set raises on a
\* default timeout that is no number, and the call returns None
get_fill_step(q, st, cfg, dflt) ==
    LET key == individual_key("cache_service", cfg, NormalizeIata(q.code))
    IN  IF ~dflt.isnum
        THEN Step(GetCall("done", q.code, q.found, None), st)
        ELSE Step(GetCall("done", q.code, q.found, Some(q.found)),
                  Put(st, key, raw(q.found)))

RECURSIVE put_many_run(_, _, _)
\* set_many writing every entry
put_many_run(p, st, cfg) ==
    IF p.pc # "many" THEN Step(p, st)
    ELSE LET c == CHOOSE x \in p.todo : TRUE
             r == put_many_step(p, st, cfg, c)
         IN  put_many_run(r.call, r.store, cfg)

\* cache_airports_data(R, t) running alone from the store st, the clock
\* reading `now` when it writes the timestamp
put_run(st, cfg, dflt, R, t, now) ==
    LET r1 == put_bulk_step(PutCall("bulk", R, t, {}, FALSE), st, cfg, dflt)
        r2 == put_many_run(r1.call, r1.store, cfg)
    IN  IF r1.call.pc = "done" THEN r1
        ELSE put_sync_step(r2.call, r2.store, cfg, now)

(***************************************************************************)
(* The operations of the service the deployment uses.                      *)
(***************************************************************************)
cache_airports_data(v, st, cfg, dflt, R, timeoutArg, f) ==
    IF v = "services"
    THEN services_cache_airports_data(st, cfg, dflt, R, timeoutArg, f)
    ELSE cache_service_cache_airports_data(st, cfg, dflt, R, timeoutArg, f)

get_airports_data(v, st, cfg, g) ==
    IF v = "services"
    THEN services_get_airports_data(st, cfg, g)
    ELSE cache_service_get_airports_data(st, cfg, g)

get_airport_by_iata(v, st, cfg, dflt, code, g) ==
    IF v = "services"
    THEN services_get_airport_by_iata(st, cfg, code, g)
    ELSE cache_service_get_airport_by_iata(st, cfg, dflt, code, g)

(***************************************************************************)
(* AirportAPIService of airports/services.py.                               *)
(***************************************************************************)
\* what fetch_airports returns: None when the request fails, else the
\* document of the API, which is a dict or (kind "other") a non-empty
\* value of another type
Fetched(kind, data) == [kind |-> kind, data |-> data]

FetchFailed == Fetched("fail", <<>>)

FetchedOther == Fetched("other", <<>>)

FetchOutcomes == {FetchFailed, FetchedOther} \cup {Fetched("dict", R) : R \in Directories}

\* _format_api_response
format_api_response(fresh) == IF fresh.kind = "dict" THEN fresh.data ELSE <<>>

\* `if fresh_data:`
FetchTruthy(fresh) ==
    fresh.kind = "other" \/ (fresh.kind = "dict" /\ Truthy(fresh.data))

\* get_airports(force_refresh): g is the outcome of the cache.get, fresh
\* what fetch_airports returns if it is called, f the behaviour of the
\* store during cache_airports_data; fetches counts the calls of
\* fetch_airports
get_airports(st, cfg, dflt, force_refresh, g, fresh, f) ==
    LET cached == services_get_airports_data(st, cfg, g)
        formatted == format_api_response(fresh)
        r == services_cache_airports_data(st, cfg, dflt, formatted, NoTimeout, f)
    IN  IF ~force_refresh /\ ~cached.ret.absent /\ Truthy(cached.ret.val)
        THEN [s |-> cached.s, ret |-> cached.ret, fetches |-> 0, path |-> "hit"]
        ELSE IF ~FetchTruthy(fresh)
        THEN [s |-> Begin(st), ret |-> None, fetches |-> 1, path |-> "no_data"]
        ELSE [s |-> r.s, ret |-> Some(formatted), fetches |-> 1,
              path |-> IF r.ret THEN "fetched" ELSE "fetched_not_cached"]

(***************************************************************************)
(* The behaviours of the store during one call.                            *)
(***************************************************************************)
AllOk(R) == [c \in DOMAIN R |-> "ok"]

\* every behaviour of the store during one cache_airports_data(R) call; the
\* loop of services.py reads ind and order, set_many of cache_service.py many
PutFaults(v, R) ==
    IF v = "services"
    THEN [bulk : SetOutcomes, ind : [DOMAIN R -> SetOutcomes], order : Orders(R),
          many : {{}}, many_out : {"ok"}, sync : SetOutcomes]
    ELSE [bulk : SetOutcomes, ind : {AllOk(R)}, order : {CHOOSE o \in Orders(R) : TRUE},
          many : SUBSET DOMAIN R, many_out : {"ok", "raise"}, sync : SetOutcomes]

\* the store does what it is asked
NoPutFault(R, o) ==
    [bulk |-> "ok", ind |-> AllOk(R), order |-> o, many |-> DOMAIN R,
     many_out |-> "ok", sync |-> "ok"]

\* the behaviours in which at most one store call goes wrong; the order of
\* iteration shows only when a write raises inside the loop
OnePutFault(R) ==
    LET o1 == CHOOSE o \in Orders(R) : TRUE
    IN  {NoPutFault(R, o1)}
        \cup {[NoPutFault(R, o1) EXCEPT !.bulk = x] : x \in {"false", "raise"}}
        \cup {[NoPutFault(R, o1) EXCEPT !.sync = x] : x \in {"false", "raise"}}
        \cup {[NoPutFault(R, o1) EXCEPT !.ind[c] = "false", !.many = DOMAIN R \ {c}] :
                c \in DOMAIN R}
        \cup {[NoPutFault(R, o) EXCEPT !.ind[c] = "raise", !.many = {},
                                       !.many_out = "raise"] :
                c \in DOMAIN R, o \in Orders(R)}

\* every behaviour of the store during one get_airport_by_iata call
GetFaults == [ind : GetOutcomes, bulk : GetOutcomes, fill : SetOutcomes]

NoGetFault == [ind |-> "ok", bulk |-> "ok", fill |-> "ok"]

OneGetFault ==
    {NoGetFault, [NoGetFault EXCEPT !.ind = "raise"], [NoGetFault EXCEPT !.bulk = "raise"],
     [NoGetFault EXCEPT !.fill = "false"], [NoGetFault EXCEPT !.fill = "raise"]}

\* an individual write of the call raised (and was caught)
IndividualRaised(v, R, timeout, f) ==
    IF v = "services"
    THEN \E c \in DOMAIN R :
            HasRequiredFields(R[c]) /\ SetResult(timeout, f.ind[c]) = "raise"
    ELSE ~timeout.isnum \/ f.many_out = "raise"

\* what a cache_airports_data call did: which write made it fail, or
\* whether every key of the call was written
PutPath(v, cfg, R, timeout, f, r) ==
    IF ~r.ret
    THEN IF SetResult(timeout, f.bulk) = "true" THEN "sync_raise"
         ELSE IF SetResult(timeout, f.bulk) = "false" THEN "bulk_false"
         ELSE "bulk_raise"
    ELSE IF {individual_key(v, cfg, c) : c \in DOMAIN R}
              \cup {airports_data_key(v, cfg), last_sync_key(v, cfg)}
              \subseteq r.s.written
         THEN "ok"
         ELSE IF IndividualRaised(v, R, timeout, f) THEN "ok_raise"
         ELSE "ok_partial"

(***************************************************************************)
(* flight_search of flights/views.py.                                      *)
(***************************************************************************)
MaxDay == 2

\* the clock: timezone.now().date()
Today == 1

\* request.GET.get(name) of a parameter the request does not carry
NoneStr == <<"None">>

\* a test that takes only an absent parameter for missing, not an empty one
Falsy_absent_only(x) == x = NoneStr

Falsy(x) == x = NoneStr \/ x = <<>>

\* a date parameter: missing, not of the form YYYY-MM-DD, or a calendar day
NoDate == [kind |-> "none", day |-> 0]

BadDate == [kind |-> "bad", day |-> 0]

Date(d) == [kind |-> "date", day |-> d]

DateParams == {NoDate, BadDate} \cup {Date(d) : d \in 0..MaxDay}

CodeParams == InputStrings \cup {NoneStr}

Requests ==
    [origin : CodeParams, destination : CodeParams,
     departure_date : DateParams, return_date : DateParams]

\* datetime.strptime(x, '%Y-%m-%d') raises ValueError
strptime_raises(x) == x.kind # "date"

strptime(x) == x.day

\* the fields of the Airport model
AirportFields ==
    {"id", "iata", "city", "latitude", "longitude", "state", "is_active",
     "created_at", "updated_at", "last_sync"}

\* Airport(**kwargs): a Django model raises TypeError on a keyword that is
\* not one of its fields
Airport_raises(kwargs) == ~(kwargs \subseteq AirportFields)

(***************************************************************************)
(* The pricing provider, process_flight_options and the combination loop.  *)
(***************************************************************************)
\* the longest list of options a provider answer carries
MaxLegs == 2

\* price.fare of an option, in whole currency units
Fares == {0, 300, 800, 1000}

\* arrival_time - departure_time of an option, in hours
Hours == {0, 5}

RawLeg(f, h) == [fare |-> f, hours |-> h]

RawLegs == {RawLeg(f, h) : f \in Fares, h \in Hours}

LegLists == UNION {[1..n -> RawLegs] : n \in 0..MaxLegs}

\* summary.currency of an answer; "" when the provider leaves it out
Currencies == {"", "USD"}

\* what call_mock_api does: it raises (network error, status other than
\* 200, a body that is not JSON), it returns a document without the
\* expected keys, or it returns options
ProviderAnswer(kind, options, currency) ==
    [kind |-> kind, options |-> options, currency |-> currency]

ProviderRaises == ProviderAnswer("raise", <<>>, "")

ProviderBadShape == ProviderAnswer("bad_shape", <<>>, "")

\* a document whose options lack a key or carry a time that is not ISO:
\* process_flight_options raises on it
ProviderBadOption == ProviderAnswer("bad_option", <<>>, "")

ProviderOk(options) == ProviderAnswer("ok", options, "")

ProviderOutcomes ==
    {ProviderRaises, ProviderBadShape, ProviderBadOption}
        \cup {ProviderAnswer("ok", l, c) : l \in LegLists, c \in Currencies}

Max(a, b) == IF a >= b THEN a ELSE b

Abs(a) == IF a >= 0 THEN a ELSE -a

\* round(a / b) for a >= 0 and b > 0
RoundDiv(a, b) == (2 * a + b) \div (2 * b)

\* a normalizer whose fee has no floor
process_flight_option_no_floor(option, distance) ==
    LET fare  == option.fare
        fee   == fare
        total == 10 * fare + fee
    IN  [hours |-> option.hours,
         price |-> [fare |-> 10 * fare, fee |-> fee, total |-> total],
         meta  |-> [range |-> RoundDiv(distance, 1000),
                    cruise_speed_kmh |->
                        IF option.hours > 0
                        THEN RoundDiv(distance, 1000 * option.hours) ELSE 0,
                    cost_per_km |->
                        IF distance > 0
                        THEN RoundDiv(100 * 1000 * fare, distance) ELSE 0]]

\* a normalizer that takes a flight for an hour long at least, in place of
\* the guard on the duration
process_flight_option_clamped(option, distance) ==
    LET fare  == option.fare
        fee   == Max(fare, 400)
        total == 10 * fare + fee
    IN  [hours |-> option.hours,
         price |-> [fare |-> 10 * fare, fee |-> fee, total |-> total],
         meta  |-> [range |-> RoundDiv(distance, 1000),
                    cruise_speed_kmh |-> RoundDiv(distance, 1000 * Max(option.hours, 1)),
                    cost_per_km |->
                        IF distance > 0
                        THEN RoundDiv(100 * 1000 * fare, distance) ELSE 0]]

\* money is held in tenths of the currency unit: 0.1 * fare is `fare`
\* tenths and 40.0 is 400 tenths; distance is held in metres and
\* cost_per_km in hundredths
process_flight_option(option, distance) ==
    LET fare  == option.fare
        fee   == Max(fare, 400)
        total == 10 * fare + fee
    IN  [hours |-> option.hours,
         price |-> [fare |-> 10 * fare, fee |-> fee, total |-> total],
         meta  |-> [range |-> RoundDiv(distance, 1000),
                    cruise_speed_kmh |->
                        IF option.hours > 0
                        THEN RoundDiv(distance, 1000 * option.hours) ELSE 0,
                    cost_per_km |->
                        IF distance > 0
                        THEN RoundDiv(100 * 1000 * fare, distance) ELSE 0]]

process_flight_options(options, distance) ==
    [i \in 1..Len(options) |-> process_flight_option(options[i], distance)]

\* the coordinates of the model, in degrees: angles whose sin^2 and cos
\* are rational
Latitudes == {-60, 0, 60}

Longitudes == {-120, -60, 0, 60, 120, 180}

\* 4 * math.sin(math.radians(d) / 2) ** 2 for d a multiple of 60 degrees
sin2_half(d) ==
    CASE d % 360 = 0 -> 0
      [] d % 360 \in {60, 300} -> 1
      [] d % 360 \in {120, 240} -> 3
      [] d % 360 = 180 -> 4

\* 2 * math.cos(math.radians(lat))
cos_lat(lat) == IF lat = 0 THEN 2 ELSE 1

\* R * 2 * math.atan2(math.sqrt(a), math.sqrt(1 - a)) in metres, for a
\* given in sixteenths
arc(a16) ==
    <<3219652, 4604540, 5706280, 6671696, 7558552, 8397717, 9209080, 10007543,
      10806007, 11617369, 12456535, 13343391, 14308806, 15410547, 16795435,
      20015087>>[a16]

\* a formula that takes the cosine of the first latitude twice
haversine_first_latitude(lat1, lon1, lat2, lon2) ==
    LET dlat == lat2 - lat1
        dlon == lon2 - lon1
        a == 4 * sin2_half(dlat) + cos_lat(lat1) * cos_lat(lat1) * sin2_half(dlon)
    IN  IF a = 0 THEN 0 ELSE IF a > 16 THEN arc(16) ELSE arc(a)

\* the distance in metres; a is held in sixteenths
haversine(lat1, lon1, lat2, lon2) ==
    LET dlat == lat2 - lat1
        dlon == lon2 - lon1
        a == 4 * sin2_half(dlat) + cos_lat(lat1) * cos_lat(lat2) * sin2_half(dlon)
    IN  IF a = 0 THEN 0 ELSE arc(a)

\* a combination whose combined fee leaves the return leg out
Combination_outbound_fee(out_opt, ret_opt) ==
    [outbound |-> out_opt, return |-> ret_opt,
     combined_price |-> [fare  |-> out_opt.price.fare + ret_opt.price.fare,
                         fee   |-> out_opt.price.fee,
                         total |-> out_opt.price.total + ret_opt.price.total]]

\* one element of the list the two nested loops append
Combination(out_opt, ret_opt) ==
    [outbound |-> out_opt, return |-> ret_opt,
     combined_price |-> [fare  |-> out_opt.price.fare + ret_opt.price.fare,
                         fee   |-> out_opt.price.fee + ret_opt.price.fee,
                         total |-> out_opt.price.total + ret_opt.price.total]]

\* loops that pair every outbound option with the first return option only
combinations_of_first_return(outbound_options, return_options) ==
    [k \in 1..(IF Len(return_options) = 0 THEN 0 ELSE Len(outbound_options)) |->
        Combination(outbound_options[k], return_options[1])]

\* the list after the loops: for each outbound option in turn, every
\* return option in turn
combinations_of(outbound_options, return_options) ==
    LET m == Len(outbound_options)
        n == Len(return_options)
    IN  [k \in 1..(m * n) |->
            Combination(outbound_options[((k - 1) \div n) + 1],
                        return_options[((k - 1) % n) + 1])]

\* a sort that puts x before the elements of the same key
insort_before_equal(sorted, x) ==
    LET before == {i \in 1..Len(sorted) :
                     sorted[i].combined_price.total < x.combined_price.total}
        k == Cardinality(before)
    IN  SubSeq(sorted, 1, k) \o <<x>> \o SubSeq(sorted, k + 1, Len(sorted))

\* list.sort puts x after the elements whose key is not greater
insort(sorted, x) ==
    LET before == {i \in 1..Len(sorted) :
                     sorted[i].combined_price.total <= x.combined_price.total}
        k == Cardinality(before)
    IN  SubSeq(sorted, 1, k) \o <<x>> \o SubSeq(sorted, k + 1, Len(sorted))

RECURSIVE sort_prefix(_, _)
\* the first n elements of combos, sorted
sort_prefix(combos, n) ==
    IF n = 0 THEN <<>> ELSE insort(sort_prefix(combos, n - 1), combos[n])

\* the list left in the order of the loops
sort_by_total_skipped(combos) == combos

\* combinations.sort(key=lambda x: x['combined_price']['total'])
sort_by_total(combos) == sort_prefix(combos, Len(combos))

(***************************************************************************)
(* The responses of flight_search.                                         *)
(***************************************************************************)
\* a message: its fixed words and the airport code it ends with, <<>> when
\* it ends with none
Message(words, code) == [words |-> words, code |-> code]

\* HttpResponse(content): a content that is iterable and not a string is
\* joined element by element; iterating a dict yields its keys
HttpResponse_content(dict) == Message(CHOOSE k \in DOMAIN dict : TRUE, <<>>)

\* the body the client receives
TextBody(text) ==
    [content_type |-> "text/html", text |-> text, error |-> "",
     summary |-> <<>>, combinations |-> <<>>]

JsonBody(error, summary, combinations) ==
    [content_type |-> "application/json", text |-> Message("", <<>>), error |-> error,
     summary |-> summary, combinations |-> combinations]

\* HttpResponseBadRequest({'error': ...}); `error` is the message logged
\* and `named` the code an invalid-airport message ends with
Response(status, error, named, s, lookups, calls) ==
    [status |-> status, error |-> error, named |-> named, store |-> s.store,
     written |-> s.written, lookups |-> lookups, calls |-> calls,
     body |-> TextBody(HttpResponse_content([error |-> Message(error, named)]))]

\* an except clause that answers with the text of the exception
InternalError_leaking(detail, s, lookups, calls) ==
    [status |-> 500, error |-> detail, named |-> <<>>, store |-> s.store,
     written |-> s.written, lookups |-> lookups, calls |-> calls,
     body |-> JsonBody(detail, <<>>, <<>>)]

\* a view without the except clause: the exception leaves flight_search
\* and the view returns no response (status 0)
InternalError_escaping(detail, s, lookups, calls) ==
    [status |-> 0, error |-> detail, named |-> <<>>, store |-> s.store,
     written |-> s.written, lookups |-> lookups, calls |-> calls,
     body |-> JsonBody(detail, <<>>, <<>>)]

\* except Exception as e: JsonResponse({'error': 'Internal server error'},
\* status=500); detail is what is logged
InternalError(detail, s, lookups, calls) ==
    [status |-> 500, error |-> "Internal server error", named |-> <<>>,
     store |-> s.store, written |-> s.written, lookups |-> lookups, calls |-> calls,
     body |-> JsonBody("Internal server error", <<>>, <<>>)]

\* JsonResponse(response)
Success(summary, combinations, s, lookups, calls) ==
    [status |-> 200, error |-> "", named |-> <<>>, store |-> s.store,
     written |-> s.written, lookups |-> lookups, calls |-> calls,
     body |-> JsonBody("", summary, combinations)]

\* origin and destination read without upper()
param_as_given(x) == IF Falsy(x) THEN NoneStr ELSE x

\* origin and destination as lines 23-24 read them
param_upper(x) == IF Falsy(x) THEN NoneStr ELSE upper(x)

\* the checks with a date test that also turns away a departure today
validation_error_strict_today(req) ==
    LET origin == param_upper(req.origin)
        destination_airport == param_upper(req.destination)
    IN  IF \/ Falsy(origin) \/ Falsy(destination_airport)
           \/ req.departure_date.kind = "none" \/ req.return_date.kind = "none"
        THEN "Missing parameters"
        ELSE IF origin = destination_airport
        THEN "Origin and destination cannot be the same"
        ELSE IF strptime_raises(req.departure_date) \/ strptime_raises(req.return_date)
        THEN "Invalid date format"
        ELSE IF \/ strptime(req.departure_date) <= Today
                \/ strptime(req.return_date) < strptime(req.departure_date)
        THEN "Invalid dates"
        ELSE ""

\* the checks of lines 28-45, in their order: the message of the first one
\* that fails, "" when the request passes them all
validation_error(req) ==
    LET origin == param_upper(req.origin)
        destination_airport == param_upper(req.destination)
    IN  IF \/ Falsy(origin) \/ Falsy(destination_airport)
           \/ req.departure_date.kind = "none" \/ req.return_date.kind = "none"
        THEN "Missing parameters"
        ELSE IF origin = destination_airport
        THEN "Origin and destination cannot be the same"
        ELSE IF strptime_raises(req.departure_date) \/ strptime_raises(req.return_date)
        THEN "Invalid date format"
        ELSE IF \/ strptime(req.departure_date) < Today
                \/ strptime(req.return_date) < strptime(req.departure_date)
        THEN "Invalid dates"
        ELSE ""

ValidationErrors ==
    {"Missing parameters", "Origin and destination cannot be the same",
     "Invalid date format", "Invalid dates"}

\* the airport block of the summary
airport_block(airport) ==
    [iata |-> airport.iata, city |-> airport.city, state |-> airport.state,
     lat |-> airport.lat, lon |-> airport.lon]

\* the currency of the answer as it is, with no fallback
currency_of_as_given(answer) == answer.currency

currency_of(answer) == IF answer.currency = "" THEN "BRL" ELSE answer.currency

\* lines 75-147: the two provider calls, the normalization of both lists,
\* the combinations and the envelope, from the two airports resolved; an
\* exception on the way is answered by the except clause of lines 148-150
search_legs(origin_airport, dest_airport, req, p1, p2, s, lookups) ==
    LET distance == haversine(origin_airport.lat, origin_airport.lon,
                              dest_airport.lat, dest_airport.lon)
        outbound_options == process_flight_options(p1.options, distance)
        return_options == process_flight_options(p2.options, distance)
        combinations == sort_by_total(combinations_of(outbound_options, return_options))
        summary ==
            [outbound |-> [departure_date |-> req.departure_date,
                           from |-> airport_block(origin_airport),
                           to |-> airport_block(dest_airport),
                           currency |-> currency_of(p1)],
             return   |-> [departure_date |-> req.return_date,
                           from |-> airport_block(dest_airport),
                           to |-> airport_block(origin_airport),
                           currency |-> currency_of(p2)]]
    IN  IF p1.kind = "raise" THEN InternalError("URLError", s, lookups, 1)
        ELSE IF p1.kind = "bad_shape" THEN InternalError("KeyError", s, lookups, 1)
        ELSE IF p1.kind = "bad_option" THEN InternalError("KeyError", s, lookups, 1)
        ELSE IF p2.kind = "raise" THEN InternalError("URLError", s, lookups, 2)
        ELSE IF p2.kind = "bad_shape" THEN InternalError("KeyError", s, lookups, 2)
        ELSE IF p2.kind = "bad_option" THEN InternalError("KeyError", s, lookups, 2)
        ELSE Success(summary, combinations, s, lookups, 2)

\* the arguments of the two call_mock_api calls of lines 75 and 82
provider_requests(req) ==
    <<[from |-> param_upper(req.origin), to |-> param_upper(req.destination),
       date |-> req.departure_date],
      [from |-> param_upper(req.destination), to |-> param_upper(req.origin),
       date |-> req.return_date]>>

\* the steps in the order the claim gives them: both provider calls, then
\* the distance and the two normalizations
search_legs_steps_calls_first(p1, p2) ==
    <<"call_outbound">> \o
    IF p1.kind \in {"raise", "bad_shape"} THEN <<>>
    ELSE <<"call_return">> \o
    IF p2.kind \in {"raise", "bad_shape"} THEN <<>>
    ELSE <<"distance", "normalize_outbound">> \o
    IF p1.kind = "bad_option" THEN <<>>
    ELSE <<"normalize_return">> \o
    IF p2.kind = "bad_option" THEN <<>>
    ELSE <<"combine", "sort", "respond">>

\* the steps of lines 75-147 in the order the view takes them, up to the
\* one that raises: call_mock_api (75-76), haversine (78),
\* process_flight_options (80), call_mock_api (82-83),
\* process_flight_options (85), the loops (89-99), the sort (102) and the
\* response (104-147)
search_legs_steps(p1, p2) ==
    <<"call_outbound">> \o
    IF p1.kind \in {"raise", "bad_shape"} THEN <<>>
    ELSE <<"distance", "normalize_outbound">> \o
    IF p1.kind = "bad_option" THEN <<>>
    ELSE <<"call_return">> \o
    IF p2.kind \in {"raise", "bad_shape"} THEN <<>>
    ELSE <<"normalize_return">> \o
    IF p2.kind = "bad_option" THEN <<>>
    ELSE <<"combine", "sort", "respond">>

\* a view that looks the origin up before it checks the dates
flight_search_lookup_first(v, st, cfg, req, g1, g2, p1, p2) ==
    LET origin == param_upper(req.origin)
        destination_airport == param_upper(req.destination)
        s0 == Begin(st)
        dflt == InitDefaultTimeout(v, cfg)
        o == get_airport_by_iata(v, st, cfg, dflt, origin, g1)
        d == get_airport_by_iata(v, o.s.store, cfg, dflt, destination_airport, g2)
        s2 == [store |-> d.s.store, written |-> o.s.written \cup d.s.written,
               timeouts |-> o.s.timeouts \cup d.s.timeouts]
        both == <<NormalizeIata(origin), NormalizeIata(destination_airport)>>
    IN  IF validation_error(req) \in {"Invalid date format", "Invalid dates"}
        THEN Response(400, validation_error(req), <<>>, o.s, <<NormalizeIata(origin)>>, 0)
        ELSE IF validation_error(req) # ""
        THEN Response(400, validation_error(req), <<>>, s0, <<>>, 0)
        ELSE IF o.ret.absent \/ ~Truthy(o.ret.val)
        THEN Response(400, "Invalid airport code", origin, o.s,
                      <<NormalizeIata(origin)>>, 0)
        ELSE IF d.ret.absent \/ ~Truthy(d.ret.val)
        THEN Response(400, "Invalid airport code", destination_airport, s2, both, 0)
        ELSE IF ~HasRequiredFields(o.ret.val) \/ ~HasRequiredFields(d.ret.val)
        THEN InternalError("KeyError", s2, both, 0)
        ELSE IF Airport_raises({"iata", "city", "lat", "lon", "state"})
        THEN InternalError("TypeError", s2, both, 0)
        ELSE search_legs(o.ret.val, d.ret.val, req, p1, p2, s2, both)

\* g1, g2: the behaviour of the store during the two lookups; p1, p2: the
\* outcomes of the two provider calls
flight_search(v, st, cfg, req, g1, g2, p1, p2) ==
    LET origin == param_upper(req.origin)
        destination_airport == param_upper(req.destination)
        s0 == Begin(st)
        dflt == InitDefaultTimeout(v, cfg)
        o == get_airport_by_iata(v, st, cfg, dflt, origin, g1)
        d == get_airport_by_iata(v, o.s.store, cfg, dflt, destination_airport, g2)
        s2 == [store |-> d.s.store, written |-> o.s.written \cup d.s.written,
               timeouts |-> o.s.timeouts \cup d.s.timeouts]
        both == <<NormalizeIata(origin), NormalizeIata(destination_airport)>>
    IN  IF validation_error(req) # ""
        THEN Response(400, validation_error(req), <<>>, s0, <<>>, 0)
        ELSE IF o.ret.absent \/ ~Truthy(o.ret.val)
        THEN Response(400, "Invalid airport code", origin, o.s,
                      <<NormalizeIata(origin)>>, 0)
        ELSE IF d.ret.absent \/ ~Truthy(d.ret.val)
        THEN Response(400, "Invalid airport code", destination_airport, s2, both, 0)
        ELSE IF ~HasRequiredFields(o.ret.val) \/ ~HasRequiredFields(d.ret.val)
        THEN InternalError("KeyError", s2, both, 0)
        ELSE IF Airport_raises({"iata", "city", "lat", "lon", "state"})
        THEN InternalError("TypeError", s2, both, 0)
        ELSE search_legs(o.ret.val, d.ret.val, req, p1, p2, s2, both)

\* the requests the state machine issues: a missing code, a code in lower
\* and in upper case and a second code; dates missing, malformed, past,
\* present and future
RequestCodes == {NoneStr, <<"a">>, <<"A">>, <<"B">>}

RequestDates ==
    {<<NoDate, Date(Today)>>, <<BadDate, Date(Today)>>, <<Date(Today), BadDate>>,
     <<Date(Today - 1), Date(Today)>>, <<Date(Today), Date(Today - 1)>>,
     <<Date(Today), Date(Today)>>, <<Date(Today), Date(MaxDay)>>}

IssuedRequests ==
    {[origin |-> o, destination |-> d, departure_date |-> dd[1], return_date |-> dd[2]] :
        o \in RequestCodes, d \in RequestCodes, dd \in RequestDates}

\* the behaviours of the store and of the provider during an issued request
IssuedFaults ==
    {[g1 |-> NoGetFault, g2 |-> NoGetFault,
      p1 |-> ProviderOk(<<RawLeg(1000, 5)>>), p2 |-> ProviderOk(<<RawLeg(800, 5)>>)],
     [g1 |-> [NoGetFault EXCEPT !.ind = "raise"], g2 |-> NoGetFault,
      p1 |-> ProviderOk(<<RawLeg(1000, 5)>>), p2 |-> ProviderOk(<<RawLeg(800, 5)>>)],
     [g1 |-> NoGetFault, g2 |-> NoGetFault,
      p1 |-> ProviderRaises, p2 |-> ProviderOk(<<>>)]}

(***************************************************************************)
(* Command.handle of airports/management/commands/import_airports.py.      *)
(***************************************************************************)
\* the validation loop: the records kept in valid_airports
valid_airports(airports_data) ==
    LET ok == {c \in DOMAIN airports_data :
                 /\ HasRequiredFields(airports_data[c])
                 /\ -90 <= airports_data[c].lat /\ airports_data[c].lat <= 90
                 /\ -180 <= airports_data[c].lon /\ airports_data[c].lon <= 180}
    IN  [c \in ok |-> airports_data[c]]

\* a command that caches whether or not --dry-run is given
import_airports_dry_run_ignored(v, st, cfg, api, dry_run, f) ==
    IF api.failed
    THEN [s |-> Begin(st), passed |-> <<>>, path |-> "api_failed"]
    ELSE LET r == cache_airports_data(v, st, cfg, InitDefaultTimeout(v, cfg),
                                      api.data, NoTimeout, f)
         IN  [s |-> r.s, passed |-> api.data,
              path |-> IF dry_run THEN "dry_run"
                       ELSE IF r.ret THEN "cached" ELSE "not_cached"]

\* api: "fail" when the request or its JSON fails, else the dict received;
\* the command makes its own AirportCacheService and passes no timeout
import_airports(v, st, cfg, api, dry_run, f) ==
    IF api.failed
    THEN [s |-> Begin(st), passed |-> <<>>, path |-> "api_failed"]
    ELSE IF dry_run
    THEN [s |-> Begin(st), passed |-> <<>>, path |-> "dry_run"]
    ELSE LET r == cache_airports_data(v, st, cfg, InitDefaultTimeout(v, cfg),
                                      api.data, NoTimeout, f)
         IN  [s |-> r.s, passed |-> api.data,
              path |-> IF r.ret THEN "cached" ELSE "not_cached"]

ApiResponses ==
    {[failed |-> TRUE, data |-> <<>>]} \cup {[failed |-> FALSE, data |-> R] : R \in Directories}

(***************************************************************************)
(* State machine of the directory cache.                                   *)
(***************************************************************************)
\* the last call, the path it took and the directory it was given
Call(op, path) == [op |-> op, path |-> path, arg |-> <<>>]

CallWith(op, path, arg) == [op |-> op, path |-> path, arg |-> arg]

\* the calls in progress, the directories handed to cache_airports_data so
\* far, the number of these calls and the reading of the clock
NoCalls == [put |-> NoPut, get |-> NoGet, supplied |-> {}, puts |-> 0, now |-> 0]

Init ==
    /\ variant \in Variants
    /\ configured \in BOOLEAN
    /\ default_timeout = InitDefaultTimeout(variant, configured)
    /\ store = <<>>
    /\ last = Call("init", "")
    /\ inflight = NoCalls

\* AirportCacheService(): a request, a command or a test makes a new instance
NewInstance ==
    /\ default_timeout' = InitDefaultTimeout(variant, configured)
    /\ last' = Call("new", "")
    /\ UNCHANGED <<inflight, variant, configured, store>>

\* the directories the state machine stores: the empty one, and the first
\* code with or without a second record, complete or not
IssuedDirectories ==
    {R \in Directories :
        R = <<>> \/ (<<"A">> \in DOMAIN R /\ R[<<"A">>] = FullRecord(<<"A">>, 1))}

PutAll ==
    \E R \in IssuedDirectories, t \in TimeoutArgs :
      \E f \in OnePutFault(R) :
        LET r == cache_airports_data(variant, store, configured, default_timeout, R, t, f)
        IN  /\ store' = r.s.store
            /\ default_timeout' = IF variant = "services"
                                  THEN ReassignedDefaultTimeout(configured)
                                  ELSE default_timeout
            /\ last' = CallWith("putAll", PutPath(variant, configured, R,
                                                  TimeoutOr(t, default_timeout), f, r), R)
            /\ UNCHANGED <<inflight, variant, configured>>

GetAll ==
    \E g \in GetOutcomes :
        LET r == get_airports_data(variant, store, configured, g)
        IN  /\ store' = r.s.store
            /\ last' = Call("getAll", IF g = "raise" THEN "error"
                                      ELSE IF r.ret.absent THEN "miss" ELSE "hit")
            /\ UNCHANGED <<inflight, variant, configured, default_timeout>>

\* the codes the state machine looks up: empty, lower case, padded, a second
\* code and an unknown one
IssuedCodes == {<<>>, <<"a">>, <<" ", "A">>, <<"B">>, <<"A", "A">>}

GetByCode ==
    \E code \in IssuedCodes, g \in OneGetFault :
        LET r == get_airport_by_iata(variant, store, configured, default_timeout, code, g)
        IN  /\ store' = r.s.store
            /\ last' = Call("getByCode",
                            IF r.path = "hit" /\ code # NormalizeIata(code)
                            THEN "hit_normalized" ELSE r.path)
            /\ UNCHANGED <<inflight, variant, configured, default_timeout>>

\* the ttl of an entry runs out
Expire ==
    \E k \in DOMAIN store :
        /\ store' = Remove(store, k)
        /\ last' = Call("expire", "")
        /\ UNCHANGED <<inflight, variant, configured, default_timeout>>

\* cache.clear()
Clear ==
    /\ store' = <<>>
    /\ last' = Call("clear", "")
    /\ UNCHANGED <<inflight, variant, configured, default_timeout>>

Next ==
    \/ NewInstance
    \/ PutAll
    \/ GetAll
    \/ GetByCode
    \/ Expire
    \/ Clear

Spec == Init /\ [][Next]_vars

(***************************************************************************)
(* State machine of the search endpoint: the importer fills the directory, *)
(* entries expire, requests arrive.                                        *)
(***************************************************************************)
\* the upstream answers the state machine imports
IssuedResponses == {api \in ApiResponses : api.failed \/ api.data \in IssuedDirectories}

ImportAirports ==
    \E api \in IssuedResponses, dry_run \in BOOLEAN :
      \E f \in {NoPutFault(api.data, CHOOSE o \in Orders(api.data) : TRUE)} :
        LET r == import_airports(variant, store, configured, api, dry_run, f)
        IN  /\ store' = r.s.store
            /\ last' = Call("import", r.path)
            /\ UNCHANGED <<inflight, variant, configured, default_timeout>>

\* a request rejected for naming one airport twice is remembered with the
\* two codes as the client spelled them, a request whose two dates were
\* parsed with the two dates
FlightSearch ==
    \E req \in IssuedRequests, e \in IssuedFaults :
        LET r == flight_search(variant, store, configured, req, e.g1, e.g2, e.p1, e.p2)
        IN  /\ store' = r.store
            /\ last' = CallWith("search", r.error,
                                IF r.error = "Origin and destination cannot be the same"
                                THEN <<req.origin, req.destination>>
                                ELSE IF r.error \in {"Missing parameters", "Invalid date format"}
                                THEN <<>>
                                ELSE <<req.departure_date, req.return_date>>)
            /\ UNCHANGED <<inflight, variant, configured, default_timeout>>

SearchNext ==
    \/ ImportAirports
    \/ FlightSearch
    \/ Expire
    \/ Clear

\* the view and the import command use the service of airports/services.py
SearchInit == Init /\ variant = "services"

SearchSpec == SearchInit /\ [][SearchNext]_vars

(***************************************************************************)
(* AirportAPIService.get_airports over the cache of airports/services.py:  *)
(* the snapshot is put, read through the service, expires or is cleared.   *)
(***************************************************************************)
\* what the state machine makes the API answer
IssuedFetches ==
    {FetchFailed, FetchedOther} \cup {Fetched("dict", R) : R \in IssuedDirectories}

GetAirports ==
    \E force_refresh \in BOOLEAN, g \in GetOutcomes, fresh \in IssuedFetches :
      \E f \in {NoPutFault(format_api_response(fresh),
                           CHOOSE o \in Orders(format_api_response(fresh)) : TRUE)} :
        LET r == get_airports(store, configured, default_timeout, force_refresh, g, fresh, f)
        IN  /\ store' = r.s.store
            /\ default_timeout' = IF r.path \in {"fetched", "fetched_not_cached"}
                                  THEN ReassignedDefaultTimeout(configured)
                                  ELSE default_timeout
            /\ last' = CallWith("get_airports", r.path, r.ret)
            /\ UNCHANGED <<inflight, variant, configured>>

ApiNext ==
    \/ GetAirports
    \/ PutAll
    \/ Expire
    \/ Clear

ApiSpec == SearchInit /\ [][ApiNext]_vars

(***************************************************************************)
(* Lines 75-147 of flight_search and process_flight_options on their own:  *)
(* the two resolved airports are given, the provider answers are drawn.    *)
(***************************************************************************)
\* the record of an airport as the directory holds it, A on the meridian
\* of Greenwich and every other one sixty degrees east of it
AirportAt(c) == [FullRecord(c, 1) EXCEPT !.lon = IF c = <<"A">> THEN 0 ELSE 60]

\* the request for A to B, out today and back on the last day, which
\* passes the checks of lines 28-45
LegRequests ==
    {req \in IssuedRequests :
        /\ validation_error(req) = ""
        /\ req.origin = <<"A">> /\ req.destination = <<"B">>
        /\ req.return_date = Date(MaxDay)}

\* the lists of options the provider is made to answer with
IssuedLegLists ==
    {<<>>, <<RawLeg(1000, 5)>>, <<RawLeg(800, 5)>>,
     <<RawLeg(1000, 5), RawLeg(300, 5)>>, <<RawLeg(800, 5), RawLeg(800, 5)>>,
     <<RawLeg(0, 0), RawLeg(300, 5)>>, <<RawLeg(300, 0)>>}

IssuedProviderOutcomes ==
    {ProviderRaises, ProviderBadShape, ProviderBadOption,
     ProviderAnswer("ok", <<RawLeg(1000, 5)>>, "USD")}
        \cup {ProviderOk(l) : l \in IssuedLegLists}

\* the distances process_flight_options is applied with, in metres
Distances == {0, 6671696}

\* search_legs for req in the current state
LegsResult(req, p1, p2) ==
    search_legs(AirportAt(upper(req.origin)), AirportAt(upper(req.destination)),
                req, p1, p2, Begin(store), <<>>)

\* where a run of lines 75-147 ended
LegsPath(r) ==
    IF r.status = 200 THEN "ok"
    ELSE IF r.calls = 1 THEN "outbound_failed" ELSE "return_failed"

SearchLegs ==
    \E req \in LegRequests, p1 \in IssuedProviderOutcomes, p2 \in IssuedProviderOutcomes :
        LET r == LegsResult(req, p1, p2)
        IN  /\ last' = CallWith("search_legs", LegsPath(r),
                                [outbound |-> p1.options, return |-> p2.options,
                                 calls |-> r.calls, body |-> r.body,
                                 steps |-> search_legs_steps(p1, p2),
                                 asked |-> SubSeq(provider_requests(req), 1, r.calls)])
            /\ store' = r.store
            /\ UNCHANGED <<inflight, variant, configured, default_timeout>>

ProcessFlightOptions ==
    \E options \in IssuedLegLists, distance \in Distances :
        /\ last' = CallWith("process_flight_options", "",
                            process_flight_options(options, distance))
        /\ UNCHANGED <<inflight, variant, configured, default_timeout, store>>

LegsNext ==
    \/ SearchLegs
    \/ ProcessFlightOptions

LegsSpec == SearchInit /\ [][LegsNext]_vars

(***************************************************************************)
(* haversine on its own, applied to pairs of points.                       *)
(***************************************************************************)
Points == Latitudes \X Longitudes

Haversine ==
    \E p \in Points, q \in Points :
        /\ last' = CallWith("haversine", "",
                            [from |-> p, to |-> q, metres |-> haversine(p[1], p[2], q[1], q[2])])
        /\ UNCHANGED <<inflight, variant, configured, default_timeout, store>>

DistanceNext == Haversine

DistanceSpec == SearchInit /\ [][DistanceNext]_vars

(***************************************************************************)
(* State machine of two callers of cache_service.py: one caches            *)
(* directories, one looks codes up, and their store operations interleave. *)
(***************************************************************************)
MaxPuts == 2

MaxClock == 1

\* the directories the first caller caches: two records of the first code,
\* and a directory with both codes
RaceDirectories ==
    {R \in Directories :
        /\ <<"A">> \in DOMAIN R
        /\ <<"B">> \in DOMAIN R => /\ R[<<"A">>] = FullRecord(<<"A">>, 1)
                                   /\ R[<<"B">>] = FullRecord(<<"B">>, 1)}

\* the codes the second caller looks up
RaceCodes == {<<"a">>, <<"B">>}

\* cache_airports_data(R, t) is called
BeginPut ==
    /\ inflight.put.pc \in {"idle", "done"}
    /\ inflight.puts < MaxPuts
    /\ \E R \in RaceDirectories, t \in TimeoutArgs :
          inflight' = [inflight EXCEPT !.put = PutCall("bulk", R, t, {}, FALSE),
                                       !.supplied = @ \cup {R},
                                       !.puts = @ + 1]
    /\ last' = Call("putAll", "begin")
    /\ UNCHANGED <<variant, configured, default_timeout, store>>

PutBulk ==
    /\ inflight.put.pc = "bulk"
    /\ LET r == put_bulk_step(inflight.put, store, configured, default_timeout)
       IN  /\ store' = r.store
           /\ inflight' = [inflight EXCEPT !.put = r.call]
    /\ last' = Call("putAll", "bulk")
    /\ UNCHANGED <<variant, configured, default_timeout>>

PutMany ==
    /\ inflight.put.pc = "many"
    /\ \E c \in inflight.put.todo :
          LET r == put_many_step(inflight.put, store, configured, c)
          IN  /\ store' = r.store
              /\ inflight' = [inflight EXCEPT !.put = r.call]
    /\ last' = Call("putAll", "many")
    /\ UNCHANGED <<variant, configured, default_timeout>>

PutManyRaises ==
    /\ inflight.put.pc = "many"
    /\ LET r == put_many_raise_step(inflight.put, store)
       IN  /\ store' = r.store
           /\ inflight' = [inflight EXCEPT !.put = r.call]
    /\ last' = Call("putAll", "many_raise")
    /\ UNCHANGED <<variant, configured, default_timeout>>

PutSync ==
    /\ inflight.put.pc = "sync"
    /\ LET r == put_sync_step(inflight.put, store, configured, inflight.now)
       IN  /\ store' = r.store
           /\ inflight' = [inflight EXCEPT !.put = r.call]
    /\ last' = Call("putAll", "sync")
    /\ UNCHANGED <<variant, configured, default_timeout>>

\* get_airport_by_iata(code) is called
BeginGet ==
    /\ inflight.get.pc \in {"idle", "done"}
    /\ \E code \in RaceCodes :
          inflight' = [inflight EXCEPT !.get = GetCall("individual", code, <<>>, None)]
    /\ last' = Call("getByCode", "begin")
    /\ UNCHANGED <<variant, configured, default_timeout, store>>

GetIndividual ==
    /\ inflight.get.pc = "individual"
    /\ LET r == get_individual_step(inflight.get, store, configured)
       IN  /\ store' = r.store
           /\ inflight' = [inflight EXCEPT !.get = r.call]
    /\ last' = Call("getByCode", "individual")
    /\ UNCHANGED <<variant, configured, default_timeout>>

GetBulk ==
    /\ inflight.get.pc = "bulk"
    /\ LET r == get_bulk_step(inflight.get, store, configured)
       IN  /\ store' = r.store
           /\ inflight' = [inflight EXCEPT !.get = r.call]
    /\ last' = Call("getByCode", "bulk")
    /\ UNCHANGED <<variant, configured, default_timeout>>

GetFill ==
    /\ inflight.get.pc = "fill"
    /\ LET r == get_fill_step(inflight.get, store, configured, default_timeout)
       IN  /\ store' = r.store
           /\ inflight' = [inflight EXCEPT !.get = r.call]
    /\ last' = Call("getByCode", "fill")
    /\ UNCHANGED <<variant, configured, default_timeout>>

\* time passes
Tick ==
    /\ inflight.now < MaxClock
    /\ inflight' = [inflight EXCEPT !.now = @ + 1]
    /\ last' = Call("tick", "")
    /\ UNCHANGED <<variant, configured, default_timeout, store>>

RaceNext ==
    \/ BeginPut
    \/ PutBulk
    \/ PutMany
    \/ PutManyRaises
    \/ PutSync
    \/ BeginGet
    \/ GetIndividual
    \/ GetBulk
    \/ GetFill
    \/ Tick
    \/ Expire

RaceInit == Init /\ variant = "cache_service"

RaceSpec == RaceInit /\ [][RaceNext]_vars

\* the two callers when no entry expires and no store operation fails
RefreshNext ==
    \/ BeginPut
    \/ PutBulk
    \/ PutMany
    \/ PutSync
    \/ BeginGet
    \/ GetIndividual
    \/ GetBulk
    \/ GetFill

RefreshSpec == RaceInit /\ [][RefreshNext]_vars

(***************************************************************************)
(* The operations applied to the current state.                            *)
(***************************************************************************)
PutResult(R, t, f) ==
    cache_airports_data(variant, store, configured, default_timeout, R, t, f)

\* self.default_timeout after a cache_airports_data call
DefaultAfterPut ==
    IF variant = "services" THEN ReassignedDefaultTimeout(configured) ELSE default_timeout

GetAllResult(st, g) == get_airports_data(variant, st, configured, g)

Lookup(st, dflt, code, g) == get_airport_by_iata(variant, st, configured, dflt, code, g)

IndividualKey(code) == individual_key(variant, configured, NormalizeIata(code))

\* the bulk snapshot as a fault-free read returns it
Bulk(st) == GetAllResult(st, "ok").ret

BulkHas(st, code) == ~Bulk(st).absent /\ NormalizeIata(code) \in DOMAIN Bulk(st).val

\* the bulk write of a call was accepted, rejected, or raised
BulkWrite(t, f) == SetResult(TimeoutOr(t, default_timeout), f.bulk)

SyncWrite(t, f) == SetResult(TimeoutOr(t, default_timeout), f.sync)

(***************************************************************************)
(* C1.  Fallback and backfill: in every cache state where the individual   *)
(* entry of the normalized code is missing and the bulk snapshot is        *)
(* present and contains the code, getByCode (the store answering every     *)
(* call) returns the record of the bulk snapshot, and afterwards the       *)
(* individual entry exists and holds that record.                          *)
(***************************************************************************)
C1_FallbackBackfill ==
    \A code \in InputStrings :
        LET r == Lookup(store, default_timeout, code, NoGetFault)
            key == IndividualKey(code)
        IN  (~Present(store, key) /\ BulkHas(store, code))
            => /\ r.ret = Some(Bulk(store).val[NormalizeIata(code)])
               /\ Present(r.s.store, key)
               /\ r.s.store[key].val = Bulk(store).val[NormalizeIata(code)]

(***************************************************************************)
(* C2.  After putAll(R) returned success, getByCode(c) returns R[c] for    *)
(* every code c of R, whatever the cache held before and whether or not    *)
(* the individual writes of the call succeeded.                            *)
(***************************************************************************)
PutSucceeded == last.op = "putAll" /\ last.path \in {"ok", "ok_partial", "ok_raise"}

C3_BulkRejected ==
    \A R \in Directories, t \in TimeoutArgs :
      \A f \in PutFaults(variant, R) :
        LET r == PutResult(R, t, f)
        IN  BulkWrite(t, f) = "false"
            => /\ ~r.ret
               /\ r.s.written = {}
               /\ r.s.store = store

C3_Witness == last.op = "putAll" /\ last.path = "bulk_false"

(***************************************************************************)
(* C4.  Whenever the bulk snapshot write of a putAll succeeded, the call   *)
(* returned success and the last-sync timestamp is recorded, whatever the  *)
(* individual writes did.                                                  *)
(***************************************************************************)
BulkWritten == last.op = "putAll" /\ last.path \notin {"bulk_false", "bulk_raise"}

SyncKey == last_sync_key(variant, configured)

C4_IndividualFailuresTolerated_Original ==
    BulkWritten
    => /\ PutSucceeded
       /\ Present(store, SyncKey)
       /\ store[SyncKey] = isoformat

(***************************************************************************)
(* C4 as amended.  Whenever the bulk snapshot write succeeds and the       *)
(* last-sync write does not raise, putAll returns success, even if some or *)
(* all individual writes return false or raise; the last-sync timestamp is *)
(* recorded when its own write succeeds.                                   *)
(***************************************************************************)
C4_IndividualFailuresTolerated ==
    \A R \in Directories, t \in TimeoutArgs :
      \A f \in PutFaults(variant, R) :
        LET r == PutResult(R, t, f)
        IN  BulkWrite(t, f) = "true"
            => /\ SyncWrite(t, f) # "raise" => r.ret
               /\ SyncWrite(t, f) = "true"
                  => /\ r.ret
                     /\ SyncKey \in r.s.written
                     /\ r.s.store[SyncKey] = isoformat

\* a putAll returned success although an individual write failed
C4_Witness == last.op = "putAll" /\ last.path \in {"ok_partial", "ok_raise"}
                /\ \E c \in DOMAIN last.arg : ~Present(store, IndividualKey(c))

(***************************************************************************)
(* C5.  No operation surfaces a store error: when a store call raises or a *)
(* stored blob cannot be deserialized, getAll and getByCode return absent  *)
(* and putAll returns failure.                                             *)
(***************************************************************************)
DataKey == airports_data_key(variant, configured)

\* getAll: the read raises, or the blob under the data key is not JSON
GetAllAbsentOnError ==
    /\ GetAllResult(store, "raise").ret = None
    /\ (variant = "services" /\ Present(store, DataKey) /\ json_loads_raises(store[DataKey]))
       => GetAllResult(store, "ok").ret = None

\* getByCode: a store call the lookup makes raises
GetByCodeAbsentOnError ==
    \A code \in InputStrings, g \in GetFaults :
        LET r == Lookup(store, default_timeout, code, g)
            key == IndividualKey(code)
            direct == Present(store, key) /\ BlobTruthy(store[key])
        IN  /\ g.ind = "raise" => r.ret = None
            /\ (variant = "services" /\ g.ind = "ok" /\ direct
                  /\ json_loads_raises(store[key]))
               => r.ret = None
            /\ (variant = "cache_service" /\ g.ind = "ok" /\ ~direct /\ g.bulk = "raise")
               => r.ret = None
            /\ (variant = "cache_service" /\ g.ind = "ok" /\ ~direct /\ g.bulk = "ok"
                  /\ BulkHas(store, code) /\ SetResult(default_timeout, g.fill) = "raise")
               => r.ret = None

C5_NoStoreErrorSurfaces_Original ==
    /\ GetAllAbsentOnError
    /\ GetByCodeAbsentOnError
    /\ last.op = "putAll" => last.path # "ok_raise"

(***************************************************************************)
(* C5 as amended.  When a store call raises or a stored blob cannot be     *)
(* deserialized, getAll and getByCode return absent; putAll returns        *)
(* failure when the bulk snapshot write or the last-sync write raises, and *)
(* still returns success when only individual writes raise.                *)
(***************************************************************************)
C5_NoStoreErrorSurfaces ==
    /\ GetAllAbsentOnError
    /\ GetByCodeAbsentOnError
    /\ \A R \in Directories, t \in TimeoutArgs :
         \A f \in PutFaults(variant, R) :
           LET r == PutResult(R, t, f)
           IN  /\ BulkWrite(t, f) = "raise" => ~r.ret
               /\ (BulkWrite(t, f) = "true" /\ SyncWrite(t, f) = "raise") => ~r.ret
               /\ (BulkWrite(t, f) = "true" /\ SyncWrite(t, f) # "raise"
                     /\ IndividualRaised(variant, R, TimeoutOr(t, default_timeout), f))
                  => r.ret

\* a lookup ran into a raising store call
C5_Witness == last.op = "getByCode" /\ last.path = "error"

(***************************************************************************)
(* C6.  In every cache state with no individual entry for the normalized   *)
(* code and with the bulk snapshot missing or not containing the code,     *)
(* getByCode returns absent and writes nothing, whatever the store does    *)
(* during the call.                                                        *)
(***************************************************************************)
C6_MissWritesNothing ==
    \A code \in InputStrings, g \in GetFaults :
        LET r == Lookup(store, default_timeout, code, g)
        IN  (~Present(store, IndividualKey(code)) /\ ~BulkHas(store, code))
            => /\ r.ret = None
               /\ r.s.written = {}
               /\ r.s.store = store

\* a lookup missed while the directory held another code
C6_Witness == last.op = "getByCode" /\ last.path = "miss" /\ ~Bulk(store).absent

(***************************************************************************)
(* C7.  In every cache state and for every input string x, getByCode(x)    *)
(* returns what getByCode(uppercase(trim(x))) returns and leaves the same  *)
(* store, the store behaving alike in both calls.                          *)
(***************************************************************************)
C7_CaseAndWhitespaceInsensitive ==
    \A x \in InputStrings, g \in GetFaults :
        LET r1 == Lookup(store, default_timeout, x, g)
            r2 == Lookup(store, default_timeout, upper(strip(x)), g)
        IN  /\ r1.ret = r2.ret
            /\ r1.s.store = r2.s.store

\* a lookup with a lower-case or padded code hit the entry of its code
C7_Witness == last.op = "getByCode" /\ last.path = "hit_normalized"

(***************************************************************************)
(* C8.  Round trip of the bulk snapshot: right after putAll(R) returned    *)
(* success, getAll() returns R, for every R including the empty mapping;   *)
(* with an empty store getAll() returns absent.                            *)
(***************************************************************************)
C8_BulkRoundTrip ==
    /\ PutSucceeded => GetAllResult(store, "ok").ret = Some(last.arg)
    /\ store = <<>> => GetAllResult(store, "ok").ret = None

(***************************************************************************)
(* C9.  getAll, and getByCode when it returns the individual entry it      *)
(* found, leave the store as it was: they set no key and no expiry.        *)
(***************************************************************************)
C9_ReadsLeaveStore ==
    /\ \A g \in GetOutcomes :
         LET r == GetAllResult(store, g)
         IN  r.s.store = store /\ r.s.written = {} /\ r.s.timeouts = {}
    /\ \A code \in InputStrings, g \in GetFaults :
         LET r == Lookup(store, default_timeout, code, g)
             key == IndividualKey(code)
         IN  (g.ind = "ok" /\ Present(store, key) /\ BlobTruthy(store[key]))
             => r.s.store = store /\ r.s.written = {} /\ r.s.timeouts = {}

C9_Witness == last.op = "getByCode" /\ last.path = "hit"

(***************************************************************************)
(* C10.  A search request whose origin and destination are equal after     *)
(* upper-casing is answered 400 with a validation error, before any        *)
(* airport is looked up, whatever its two dates are; when all four         *)
(* parameters are present the error is the same-airport one.               *)
(***************************************************************************)
C10_SameAirportRejected ==
    \A o, d \in CodeParams :
      upper(o) = upper(d)
      => \A dep, ret \in DateParams, e \in IssuedFaults :
           LET req == [origin |-> o, destination |-> d,
                       departure_date |-> dep, return_date |-> ret]
               r == flight_search(variant, store, configured, req, e.g1, e.g2, e.p1, e.p2)
           IN  /\ r.status = 400
               /\ r.error \in ValidationErrors
               /\ r.lookups = <<>>
               /\ r.store = store
               /\ (~Falsy(o) /\ dep.kind # "none" /\ ret.kind # "none")
                  => r.error = "Origin and destination cannot be the same"

\* a request naming one airport in two spellings was rejected
C10_Witness ==
    /\ last.op = "search"
    /\ last.path = "Origin and destination cannot be the same"
    /\ last.arg[1] # last.arg[2]

(***************************************************************************)
(* C11.  A search request in which origin, destination, departure_date or  *)
(* return_date is missing or empty is answered 400 as a request with       *)
(* missing parameters, before any airport is looked up, whatever the       *)
(* other parameters are.                                                   *)
(***************************************************************************)
SearchResult(req, e) ==
    flight_search(variant, store, configured, req, e.g1, e.g2, e.p1, e.p2)

C11_MissingParameter ==
    \A req \in Requests :
      (\/ req.origin \in {NoneStr, <<>>} \/ req.destination \in {NoneStr, <<>>}
       \/ req.departure_date = NoDate \/ req.return_date = NoDate)
      => \A e \in IssuedFaults :
           LET r == SearchResult(req, e)
           IN  /\ r.status = 400
               /\ r.error = "Missing parameters"
               /\ r.lookups = <<>>
               /\ r.store = store

C11_Witness == last.op = "search" /\ last.path = "Missing parameters"

(***************************************************************************)
(* C12.  Of a request that names two different airports and carries both   *)
(* dates: with two well-formed dates it is answered 400 "Invalid dates"    *)
(* when departure_date is before today or return_date is before            *)
(* departure_date, and otherwise, the boundary cases departure_date =      *)
(* today and return_date = departure_date included, it passes the date     *)
(* checks and the origin is looked up; with a date the parser rejects it   *)
(* is answered 400 "Invalid date format".                                  *)
(***************************************************************************)
\* the request passes the checks that precede the dates
ReachesDateChecks(req) ==
    /\ req.origin \notin {NoneStr, <<>>} /\ req.destination \notin {NoneStr, <<>>}
    /\ upper(req.origin) # upper(req.destination)
    /\ req.departure_date # NoDate /\ req.return_date # NoDate

C12_WitnessPast == last.path = "Invalid dates" /\ last.arg = <<Date(Today - 1), Date(Today)>>

(***************************************************************************)
(* C13.  Of a request that passes the checks of the parameters and whose   *)
(* origin, or else whose destination, the directory does not hold: the     *)
(* answer has status 400, is no envelope, and its body is a message that   *)
(* names the code that was not found, the origin's when the origin is not  *)
(* found, otherwise the destination's.  The code answers with              *)
(* HttpResponseBadRequest({'error': ...}), whose body is the dict's key.   *)
(***************************************************************************)
\* what the lookups of the two codes of req return in the current state
OriginLookup(req, e) ==
    get_airport_by_iata(variant, store, configured, InitDefaultTimeout(variant, configured),
                        param_upper(req.origin), e.g1)

DestinationLookup(req, e) ==
    get_airport_by_iata(variant, OriginLookup(req, e).s.store, configured,
                        InitDefaultTimeout(variant, configured),
                        param_upper(req.destination), e.g2)

\* the code the answer to req has to name, <<>> when both are found
OffendingCode(req, e) ==
    IF OriginLookup(req, e).ret.absent THEN param_upper(req.origin)
    ELSE IF DestinationLookup(req, e).ret.absent THEN param_upper(req.destination)
    ELSE <<>>

C13_NotFoundNamesCode ==
    \A req \in IssuedRequests, e \in IssuedFaults :
      (validation_error(req) = "" /\ OffendingCode(req, e) # <<>>)
      => LET r == SearchResult(req, e)
         IN  /\ r.status = 400
             /\ r.body.summary = <<>> /\ r.body.combinations = <<>>
             /\ r.body.text.code = OffendingCode(req, e)

\* what the code does keep of the claim: the status, the order of the two
\* lookups, the message it builds and logs, and no envelope
C13_NotFoundStatus ==
    \A req \in Requests :
      validation_error(req) = ""
      => \A e \in IssuedFaults :
           (OffendingCode(req, e) # <<>>)
           => LET r == SearchResult(req, e)
              IN  /\ r.status = 400
                  /\ r.error = "Invalid airport code"
                  /\ r.named = OffendingCode(req, e)
                  /\ r.body.summary = <<>> /\ r.body.combinations = <<>>
                  /\ r.body.text = Message("error", <<>>)

Count(seq, Test(_)) == Cardinality({k \in 1..Len(seq) : Test(seq[k])})

C15_Cardinality ==
    \A req \in LegRequests, l1 \in LegLists, l2 \in LegLists :
      LET r == LegsResult(req, ProviderOk(l1), ProviderOk(l2))
          distance == haversine(0, 0, 0, 60)
          out == process_flight_options(l1, distance)
          ret == process_flight_options(l2, distance)
          combos == r.body.combinations
      IN  /\ r.status = 200
          /\ Len(combos) = Len(l1) * Len(l2)
          /\ \A i \in 1..Len(out), j \in 1..Len(ret) :
               LET IsPair(c) == c.outbound = out[i] /\ c.return = ret[j]
                   SameOut(o) == o = out[i]
                   SameRet(o) == o = ret[j]
               IN  Count(combos, IsPair) = Count(out, SameOut) * Count(ret, SameRet)
          /\ (l1 = <<>> \/ l2 = <<>>) => combos = <<>>

\* two equal outbound options and two return options gave four
\* combinations, two of them equal
C15_Witness ==
    /\ last.op = "search_legs" /\ last.path = "ok"
    /\ last.arg.outbound = <<RawLeg(800, 5), RawLeg(800, 5)>>
    /\ last.arg.return = <<RawLeg(1000, 5), RawLeg(300, 5)>>
    /\ Len(last.arg.body.combinations) = 4
    /\ \E i, j \in 1..4 :
         i # j /\ last.arg.body.combinations[i] = last.arg.body.combinations[j]

\* an empty list of return options gave an envelope with no combination
C15_WitnessEmpty ==
    /\ last.op = "search_legs" /\ last.path = "ok"
    /\ last.arg.outbound # <<>> /\ last.arg.return = <<>>
    /\ last.arg.body.combinations = <<>>
    /\ last.arg.body.summary # <<>>

(***************************************************************************)
(* C16.  From the two airports resolved: in every 200 answer each          *)
(* combination's combined_price.total is at most that of the next one.     *)
(***************************************************************************)
NonDecreasing(combos) ==
    \A k \in 1..(Len(combos) - 1) :
        combos[k].combined_price.total <= combos[k + 1].combined_price.total

C16_Ranking ==
    \A req \in LegRequests, l1 \in LegLists, l2 \in LegLists :
      LET r == LegsResult(req, ProviderOk(l1), ProviderOk(l2))
      IN  r.status = 200 => NonDecreasing(r.body.combinations)

\* the provider gave the dearer outbound option first and the answer has
\* the cheaper one first
C16_Witness ==
    /\ last.op = "search_legs" /\ last.path = "ok"
    /\ last.arg.outbound = <<RawLeg(1000, 5), RawLeg(300, 5)>>
    /\ last.arg.return = <<RawLeg(800, 5)>>
    /\ last.arg.body.combinations[1].outbound.price.fare = 3000
    /\ last.arg.body.combinations[2].outbound.price.fare = 10000

(***************************************************************************)
(* C17.  From the two airports resolved: in every combination of an        *)
(* answer, combined_price.fare, .fee and .total are the sums of the fare,  *)
(* the fee and the total of the outbound and the return leg that the same  *)
(* combination carries.                                                    *)
(***************************************************************************)
SumsItsLegs(c) ==
    /\ c.combined_price.fare = c.outbound.price.fare + c.return.price.fare
    /\ c.combined_price.fee = c.outbound.price.fee + c.return.price.fee
    /\ c.combined_price.total = c.outbound.price.total + c.return.price.total

C17_CombinedPrice ==
    \A req \in LegRequests, l1 \in LegLists, l2 \in LegLists :
      LET combos == LegsResult(req, ProviderOk(l1), ProviderOk(l2)).body.combinations
      IN  \A k \in 1..Len(combos) : SumsItsLegs(combos[k])

\* fares 1000 and 300: fare 1300.0, fee 100.0 + 40.0, total 1440.0
C17_Witness ==
    /\ last.op = "search_legs" /\ last.path = "ok"
    /\ \E k \in 1..Len(last.arg.body.combinations) :
         last.arg.body.combinations[k].combined_price
            = [fare |-> 13000, fee |-> 1400, total |-> 14400]

(***************************************************************************)
(* C18.  process_flight_options gives every option with fare >= 0 the fee  *)
(* max(0.1 * fare, 40.0) and the total fare + fee, so that fee >= 40.0 and *)
(* total >= fare + 40.0 (money in tenths: 0.1 * fare is `fare` tenths).    *)
(***************************************************************************)
C18_FeeFloor ==
    /\ \A options \in LegLists, distance \in Distances :
         LET done == process_flight_options(options, distance)
         IN  /\ Len(done) = Len(options)
             /\ \A i \in 1..Len(options) :
                  /\ done[i].price.fare = 10 * options[i].fare
                  /\ done[i].price.fee = Max(options[i].fare, 400)
                  /\ done[i].price.total = done[i].price.fare + done[i].price.fee
                  /\ done[i].price.fee >= 400
                  /\ done[i].price.total >= done[i].price.fare + 400
    /\ last.op = "process_flight_options"
       => \A i \in 1..Len(last.arg) :
            /\ last.arg[i].price.fee = Max(last.arg[i].price.fare \div 10, 400)
            /\ last.arg[i].price.total = last.arg[i].price.fare + last.arg[i].price.fee

\* a fare of 300.0, a tenth of which is under the floor, got the fee 40.0
C18_Witness ==
    /\ last.op = "process_flight_options"
    /\ \E i \in 1..Len(last.arg) :
         last.arg[i].price = [fare |-> 3000, fee |-> 400, total |-> 3400]

(***************************************************************************)
(* C19.  With A and B in the directory (GRU and JFK of the scenario), the  *)
(* search from A to B, out and back on a day after today, for which the    *)
(* provider answers one outbound option of fare 1000 and 5 hours and one   *)
(* return option of fare 800 and 5 hours, is answered by a 200 envelope    *)
(* with one combination whose combined_price.total is 1980.0.  The code    *)
(* answers 500: Airport(lat=..., lon=...) raises TypeError.                *)
(***************************************************************************)
ScenarioRequest ==
    [origin |-> <<"A">>, destination |-> <<"B">>,
     departure_date |-> Date(MaxDay), return_date |-> Date(MaxDay)]

ScenarioAnswers ==
    [g1 |-> NoGetFault, g2 |-> NoGetFault,
     p1 |-> ProviderOk(<<RawLeg(1000, 5)>>), p2 |-> ProviderOk(<<RawLeg(800, 5)>>)]

\* both airports of the scenario are found, with the five fields
ScenarioDirectory ==
    /\ ~OriginLookup(ScenarioRequest, ScenarioAnswers).ret.absent
    /\ ~DestinationLookup(ScenarioRequest, ScenarioAnswers).ret.absent
    /\ HasRequiredFields(OriginLookup(ScenarioRequest, ScenarioAnswers).ret.val)
    /\ HasRequiredFields(DestinationLookup(ScenarioRequest, ScenarioAnswers).ret.val)

C19_Scenario ==
    ScenarioDirectory
    => LET r == SearchResult(ScenarioRequest, ScenarioAnswers)
       IN  /\ r.status = 200
           /\ Len(r.body.combinations) = 1
           /\ r.body.combinations[1].combined_price.total = 19800

\* what the scenario is answered with: the except clause, before any call
\* of the provider
C19_ScenarioAnswered500 ==
    ScenarioDirectory
    => LET r == SearchResult(ScenarioRequest, ScenarioAnswers)
       IN  /\ r.status = 500
           /\ r.body = JsonBody("Internal server error", <<>>, <<>>)
           /\ r.calls = 0

\* lines 75-147 on their own do give the scenario its one combination
C19_ScenarioFromLegs ==
    \A req \in LegRequests :
      LET r == LegsResult(req, ScenarioAnswers.p1, ScenarioAnswers.p2)
      IN  /\ r.status = 200
          /\ Len(r.body.combinations) = 1
          /\ r.body.combinations[1].combined_price
                = [fare |-> 18000, fee |-> 1800, total |-> 19800]

(***************************************************************************)
(* C20.  When the importer caches (the API answered, no dry run), every    *)
(* record of the mapping it passes to cache_airports_data has the fields   *)
(* iata, city, lat, lon and state, lat in [-90, 90] and lon in             *)
(* [-180, 180]: the mapping passed is valid_airports.  The code passes     *)
(* airports_data, the mapping as the API sent it.                          *)
(***************************************************************************)
\* a record with the five fields and a latitude off the globe
OutOfRangeRecord(c) == [FullRecord(c, 1) EXCEPT !.lat = 91]

\* what the upstream API may send: per code a complete record, an
\* incomplete one or one out of range
ReceivedDirectories ==
    UNION {{m \in [D -> Records \cup {OutOfRangeRecord(c) : c \in Codes}] :
               \A c \in D : m[c] \in RecordsOf(c) \cup {OutOfRangeRecord(c)}} :
           D \in SUBSET Codes}

\* the importer's run on the answer R of the API in the current state
ImportResult(R) ==
    import_airports(variant, store, configured, [failed |-> FALSE, data |-> R], FALSE,
                    NoPutFault(R, CHOOSE o \in Orders(R) : TRUE))

Validated(record) ==
    /\ HasRequiredFields(record)
    /\ -90 <= record.lat /\ record.lat <= 90
    /\ -180 <= record.lon /\ record.lon <= 180

C20_OnlyValidatedPassed ==
    \A R \in ReceivedDirectories :
      LET r == ImportResult(R)
      IN  /\ \A c \in DOMAIN r.passed : Validated(r.passed[c])
          /\ r.passed = valid_airports(R)

\* what the importer does pass: the mapping received, whole
C20_ReceivedPassed ==
    \A R \in ReceivedDirectories :
      /\ ImportResult(R).passed = R
      /\ ImportResult(R).path \in {"cached", "not_cached"}

(***************************************************************************)
(* C21.  A run of the import command with --dry-run writes nothing to the  *)
(* cache, whatever the API answered: the store after the run is the store  *)
(* before it (bulk snapshot, individual entries and last-sync timestamp    *)
(* alike), nothing is passed to cache_airports_data, and on a cache that   *)
(* was empty getAll is still absent.                                       *)
(***************************************************************************)
DryRunResult(R) ==
    import_airports(variant, store, configured, [failed |-> FALSE, data |-> R], TRUE,
                    NoPutFault(R, CHOOSE o \in Orders(R) : TRUE))

C21_DryRunWritesNothing ==
    \A R \in ReceivedDirectories :
      LET r == DryRunResult(R)
      IN  /\ r.path = "dry_run"
          /\ r.s.store = store
          /\ r.s.written = {}
          /\ r.passed = <<>>
          /\ store = <<>> => GetAllResult(r.s.store, "ok").ret = None

\* a dry run was made on a cache that holds entries
C21_Witness == last.op = "import" /\ last.path = "dry_run" /\ store # <<>>

\* a dry run was made on the empty cache
C21_WitnessEmpty == last.op = "import" /\ last.path = "dry_run" /\ store = <<>>

(***************************************************************************)
(* C22.  get_airports() without force_refresh: when getAll returns a       *)
(* snapshot the service returns it and does not fetch; otherwise it        *)
(* fetches once, and when the API answers a directory R with records in    *)
(* it, it returns R and a get_airports() that follows on the store it left *)
(* returns R again without fetching; when the fetch fails it returns None. *)
(* With CACHE_KEYS not configured the timestamp is written over the        *)
(* snapshot, and the call that follows fetches again.                      *)
(***************************************************************************)
\* get_airports() in the store st, the store doing what it is asked
GetAirportsIn(st, fresh) ==
    get_airports(st, configured, default_timeout, FALSE, "ok", fresh,
                 NoPutFault(format_api_response(fresh),
                            CHOOSE o \in Orders(format_api_response(fresh)) : TRUE))

C22_FetchOnceThenCached ==
    \A fresh \in FetchOutcomes :
      LET first == GetAirportsIn(store, fresh)
          second == GetAirportsIn(first.s.store, FetchFailed)
      IN  /\ (~Bulk(store).absent /\ Truthy(Bulk(store).val))
             => first.fetches = 0 /\ first.ret = Bulk(store)
          /\ Bulk(store).absent
             => /\ first.fetches = 1
                /\ fresh = FetchFailed => first.ret = None
                /\ (fresh.kind = "dict" /\ Truthy(fresh.data))
                   => /\ first.ret = Some(fresh.data)
                      /\ second.fetches = 0
                      /\ second.ret = Some(fresh.data)

\* the same with CACHE_KEYS configured
C22_FetchOnceThenCached_Configured == configured => C22_FetchOnceThenCached

\* a call of get_airports fetched and cached a directory with records
C22_Fetched == last.op = "get_airports" /\ last.path = "fetched" /\ Truthy(last.arg.val)

(***************************************************************************)
(* C23.  haversine is symmetric and zero on coincident points: for all     *)
(* points p and q the distance from p to q is the distance from q to p,    *)
(* and the distance from p to p is 0.                                      *)
(***************************************************************************)
C23_DistanceSymmetric ==
    /\ \A p \in Points, q \in Points :
         /\ haversine(p[1], p[2], q[1], q[2]) = haversine(q[1], q[2], p[1], p[2])
         /\ haversine(p[1], p[2], p[1], p[2]) = 0
    /\ last.op = "haversine"
       => /\ last.arg.metres = haversine(last.arg.to[1], last.arg.to[2],
                                     last.arg.from[1], last.arg.from[2])
          /\ last.arg.from = last.arg.to => last.arg.metres = 0

\* a distance between two points of different latitude and longitude
C23_Witness ==
    /\ last.op = "haversine"
    /\ last.arg.from[1] # last.arg.to[1] /\ last.arg.from[2] # last.arg.to[2]
    /\ last.arg.metres > 0

(***************************************************************************)
(* C24.  Order of the side effects of a search: a request that fails one   *)
(* of the checks of the parameters (missing, same airport, date format,    *)
(* date range) makes no lookup in the directory and no provider call; a    *)
(* request whose origin is not found makes the lookup of the origin only   *)
(* and no provider call; a request whose destination is not found makes    *)
(* the two lookups, origin first, and no provider call; the provider is    *)
(* called only when both airports were found.                              *)
(***************************************************************************)
\* the store and the provider as a search may meet them
SearchFaults ==
    IssuedFaults \cup
    {[g1 |-> NoGetFault, g2 |-> [NoGetFault EXCEPT !.ind = "raise"],
      p1 |-> ProviderBadShape, p2 |-> ProviderRaises]}

\* requests with a code missing, empty, in lower and in upper case and a
\* second code, and with every pair of dates
SearchRequests ==
    [origin : RequestCodes \cup {<<>>}, destination : RequestCodes \cup {<<>>},
     departure_date : DateParams, return_date : DateParams]

C24_SideEffectOrder ==
    \A req \in SearchRequests, e \in SearchFaults :
      LET r == SearchResult(req, e)
          origin == NormalizeIata(param_upper(req.origin))
          destination == NormalizeIata(param_upper(req.destination))
      IN  /\ validation_error(req) # ""
             => r.lookups = <<>> /\ r.calls = 0 /\ r.store = store
          /\ (validation_error(req) = "" /\ OriginLookup(req, e).ret.absent)
             => r.lookups = <<origin>> /\ r.calls = 0
          /\ (validation_error(req) = "" /\ ~OriginLookup(req, e).ret.absent)
             => r.lookups = <<origin, destination>>
          /\ r.calls > 0
             => /\ validation_error(req) = ""
                /\ ~OriginLookup(req, e).ret.absent
                /\ ~DestinationLookup(req, e).ret.absent

\* a request with a date in the past was turned away on a directory that
\* holds airports
C24_Witness ==
    /\ last.op = "search" /\ last.path = "Invalid dates"
    /\ \E c \in Codes : Present(store, IndividualKey(c))

\* a request was turned away at the lookup of an airport
C24_WitnessNotFound == last.op = "search" /\ last.path = "Invalid airport code"

(***************************************************************************)
(* C25.  From the two airports resolved: the shared distance is computed   *)
(* and the outbound options are normalized after the outbound provider     *)
(* call and before the return provider call; the return options are        *)
(* normalized after the return call; the combinations are built after      *)
(* both normalizations.  When the normalization of the outbound options    *)
(* raises, the return call is not made.                                    *)
(***************************************************************************)
\* the position of step x in the sequence steps, 0 when it is not there
Position(steps, x) ==
    IF \E i \in 1..Len(steps) : steps[i] = x
    THEN CHOOSE i \in 1..Len(steps) : steps[i] = x ELSE 0

\* x is in steps, and y is not or comes after x
Before(steps, x, y) ==
    /\ Position(steps, x) > 0
    /\ Position(steps, y) > 0 => Position(steps, x) < Position(steps, y)

\* the number of provider calls among the steps
CallsIn(steps) ==
    Cardinality({i \in 1..Len(steps) : steps[i] \in {"call_outbound", "call_return"}})

WithTotal(combos, t) ==
    LET HasTotal(c) == c.combined_price.total = t
    IN  SelectSeq(combos, HasTotal)

C26_StableRanking ==
    \A req \in LegRequests, l1 \in LegLists, l2 \in LegLists :
      LET distance == haversine(0, 0, 0, 60)
          produced == combinations_of(process_flight_options(l1, distance),
                                      process_flight_options(l2, distance))
          ranked == LegsResult(req, ProviderOk(l1), ProviderOk(l2)).body.combinations
      IN  \A k \in 1..Len(produced) :
            WithTotal(ranked, produced[k].combined_price.total)
              = WithTotal(produced, produced[k].combined_price.total)

\* fares 1000 and 300 both ways: the pairs (1000, 300) and (300, 1000) have
\* the same total and stand in that order
C26_Witness ==
    /\ last.op = "search_legs" /\ last.path = "ok"
    /\ last.arg.outbound = <<RawLeg(1000, 5), RawLeg(300, 5)>>
    /\ last.arg.return = <<RawLeg(1000, 5), RawLeg(300, 5)>>
    /\ last.arg.body.combinations[2].combined_price.total
         = last.arg.body.combinations[3].combined_price.total
    /\ last.arg.body.combinations[2].outbound.price.fare = 10000
    /\ last.arg.body.combinations[3].outbound.price.fare = 3000

(***************************************************************************)
(* C27.  process_flight_options gives an option whose arrival is not after *)
(* its departure the cruise_speed_kmh 0, gives every option the            *)
(* cost_per_km 0 when the distance is not positive, and prices such        *)
(* options like any other: the list comes back whole, each with its fare,  *)
(* fee and total, and the search that carries them is answered 200.        *)
(***************************************************************************)
\* options of every duration, the flight that lands before it leaves
\* included
AnyDurationLegs == {RawLeg(f, h) : f \in Fares, h \in {-5, 0, 5}}

AnyDurationLists == UNION {[1..n -> AnyDurationLegs] : n \in 0..MaxLegs}

C27_ZeroGuards ==
    /\ \A options \in AnyDurationLists, distance \in Distances :
         LET done == process_flight_options(options, distance)
         IN  /\ Len(done) = Len(options)
             /\ \A i \in 1..Len(options) :
                  /\ options[i].hours <= 0 => done[i].meta.cruise_speed_kmh = 0
                  /\ distance <= 0 => done[i].meta.cost_per_km = 0
                  /\ done[i].price = [fare |-> 10 * options[i].fare,
                                      fee |-> Max(options[i].fare, 400),
                                      total |-> 10 * options[i].fare
                                                  + Max(options[i].fare, 400)]
    /\ \A req \in LegRequests, leg \in AnyDurationLegs :
         LegsResult(req, ProviderOk(<<leg>>), ProviderOk(<<leg>>)).status = 200
    /\ last.op = "process_flight_options"
       => \A i \in 1..Len(last.arg) :
            last.arg[i].hours <= 0 => last.arg[i].meta.cruise_speed_kmh = 0

\* an option of no duration over a distance was priced, with the speed 0
C27_Witness ==
    /\ last.op = "process_flight_options"
    /\ \E i \in 1..Len(last.arg) :
         /\ last.arg[i].hours = 0
         /\ last.arg[i].meta.range > 0
         /\ last.arg[i].meta.cruise_speed_kmh = 0
         /\ last.arg[i].price.total = 3400

\* an option was priced over the distance 0, with the cost 0
C27_WitnessNoDistance ==
    /\ last.op = "process_flight_options"
    /\ \E i \in 1..Len(last.arg) :
         /\ last.arg[i].meta.range = 0 /\ last.arg[i].meta.cost_per_km = 0
         /\ last.arg[i].price.fare > 0

(***************************************************************************)
(* C28.  From the two airports resolved: in every 200 answer               *)
(* summary.outbound has from = the origin airport, to = the destination    *)
(* airport and the departure_date of the request, summary.return has the   *)
(* two airports swapped and the return_date; the provider is asked for     *)
(* (origin, destination, departure_date) and then for (destination,        *)
(* origin, return_date); the currency of each direction is the one of the  *)
(* provider's answer for that direction, or BRL when the answer has none.  *)
(***************************************************************************)
\* the answers the provider gives with options, with and without currency
CurrencyAnswers == {ProviderAnswer("ok", l, c) : l \in IssuedLegLists, c \in Currencies}

C28_EnvelopeOrientation ==
    \A req \in LegRequests, p1 \in CurrencyAnswers, p2 \in CurrencyAnswers :
      LET r == LegsResult(req, p1, p2)
          origin_airport == AirportAt(upper(req.origin))
          dest_airport == AirportAt(upper(req.destination))
          asked == SubSeq(provider_requests(req), 1, r.calls)
      IN  /\ r.status = 200
          /\ r.body.summary.outbound.from = airport_block(origin_airport)
          /\ r.body.summary.outbound.to = airport_block(dest_airport)
          /\ r.body.summary.outbound.departure_date = req.departure_date
          /\ r.body.summary.return.from = airport_block(dest_airport)
          /\ r.body.summary.return.to = airport_block(origin_airport)
          /\ r.body.summary.return.departure_date = req.return_date
          /\ asked = <<[from |-> origin_airport.iata, to |-> dest_airport.iata,
                        date |-> req.departure_date],
                       [from |-> dest_airport.iata, to |-> origin_airport.iata,
                        date |-> req.return_date]>>
          /\ r.body.summary.outbound.currency
               = (IF p1.currency = "" THEN "BRL" ELSE p1.currency)
          /\ r.body.summary.return.currency
               = (IF p2.currency = "" THEN "BRL" ELSE p2.currency)

\* an answer in which the outbound direction has the provider's currency
\* and the return direction the fallback
C28_Witness ==
    /\ last.op = "search_legs" /\ last.path = "ok"
    /\ last.arg.body.summary.outbound.currency = "USD"
    /\ last.arg.body.summary.return.currency = "BRL"
    /\ last.arg.body.summary.outbound.from.iata = <<"A">>
    /\ last.arg.body.summary.return.from.iata = <<"B">>
    /\ Len(last.arg.asked) = 2 /\ last.arg.asked[1].from = <<"A">>

(***************************************************************************)
(* C29.  Write order inside putAll, for every directory, timeout and       *)
(* behaviour of the store: when the write of the bulk snapshot does not    *)
(* succeed the call writes nothing at all, so a key written by the call    *)
(* (an individual entry, the last-sync timestamp) shows that its bulk      *)
(* write succeeded; and when the write of the timestamp raises, the        *)
(* individual entries whose writes succeed are already written: the        *)
(* timestamp comes last.                                                   *)
(***************************************************************************)
\* the individual keys the call writes when the store accepts them
IndividualKeysOf(R, f) ==
    IF variant = "services"
    THEN {IndividualKey(c) : c \in {x \in DOMAIN R : HasRequiredFields(R[x])}}
    ELSE {IndividualKey(c) : c \in f.many}

\* no write of an individual entry of the call fails
IndividualWritesSucceed(R, f) ==
    IF variant = "services" THEN f.ind = AllOk(R) ELSE f.many_out = "ok"

C29_WriteOrder ==
    \A R \in Directories, t \in TimeoutArgs :
      \A f \in PutFaults(variant, R) :
        LET r == PutResult(R, t, f)
        IN  /\ BulkWrite(t, f) # "true"
               => r.s.written = {} /\ r.s.store = store /\ ~r.ret
            /\ r.s.written # {}
               => BulkWrite(t, f) = "true" /\ DataKey \in r.s.written
            /\ (BulkWrite(t, f) = "true" /\ SyncWrite(t, f) = "raise"
                  /\ IndividualWritesSucceed(R, f))
               => IndividualKeysOf(R, f) \subseteq r.s.written
            /\ (BulkWrite(t, f) = "true" /\ SyncWrite(t, f) = "true")
               => SyncKey \in r.s.written /\ r.s.store[SyncKey] = isoformat

\* a putAll whose bulk write was refused left the store without timestamp
C29_Witness ==
    /\ last.op = "putAll" /\ last.path = "bulk_false"
    /\ ~Present(store, SyncKey)

\* a putAll whose timestamp write raised left its individual entries
C29_WitnessSyncRaised ==
    /\ last.op = "putAll" /\ last.path = "sync_raise"
    /\ \E c \in Codes : Present(store, IndividualKey(c))

(***************************************************************************)
(* C30.  Unsynchronised writers, in every interleaving of the store        *)
(* operations of a getByCode with those of putAll calls: every cache entry *)
(* holds a whole value that a writer supplied (the bulk snapshot is a      *)
(* directory handed to putAll, an individual entry is the record of its    *)
(* code in such a directory, the timestamp is a reading of the clock);     *)
(* every record getByCode returns is the record some putAll supplied for   *)
(* that code; and putAll(R) run again after putAll(R) leaves the same keys,*)
(* the same bulk snapshot and the same individual entries, and returns the *)
(* same.  The last-sync timestamp is written anew with the time of the     *)
(* second call.                                                            *)
(***************************************************************************)
\* the individual key of code c is k
IsIndividualKey(k, c) == k = individual_key(variant, configured, c)

\* the entry under key k is a value handed to the store whole by a writer
WholeEntry(k) ==
    \/ /\ k = DataKey
       /\ \E R \in inflight.supplied : store[k] = raw(R)
    \/ /\ k = SyncKey
       /\ \E n \in 0..inflight.now : store[k] = isoformat_at(n)
    \/ \E c \in Codes :
         /\ IsIndividualKey(k, c)
         /\ \E R \in inflight.supplied : c \in DOMAIN R /\ store[k] = raw(R[c])

\* what the finished getByCode returned is a record supplied for its code
ReturnedWasSupplied ==
    (inflight.get.pc = "done" /\ ~inflight.get.ret.absent)
        => \E R \in inflight.supplied :
              /\ NormalizeIata(inflight.get.code) \in DOMAIN R
              /\ inflight.get.ret.val = R[NormalizeIata(inflight.get.code)]

\* putAll(R, t) run from the current store, and run again when the clock
\* reads `later`
PutOnce(R, t) == put_run(store, configured, default_timeout, R, t, inflight.now)

PutTwice(R, t, later) ==
    put_run(PutOnce(R, t).store, configured, default_timeout, R, t, later)

C30_LastWriterWins ==
    /\ \A k \in DOMAIN store : WholeEntry(k)
    /\ ReturnedWasSupplied
    /\ \A R \in RaceDirectories, t \in TimeoutArgs, later \in inflight.now..MaxClock :
          LET once  == PutOnce(R, t)
              twice == PutTwice(R, t, later)
          IN  /\ DOMAIN twice.store = DOMAIN once.store
              /\ \A k \in DOMAIN once.store \ {SyncKey} : twice.store[k] = once.store[k]
              /\ twice.call.ret = once.call.ret
              /\ once.call.ret => twice.store[SyncKey] = isoformat_at(later)

\* the statement as it stands: the second putAll(R) leaves every key with
\* the value the first one left
C30_RepeatLeavesValues ==
    \A R \in RaceDirectories, t \in TimeoutArgs, later \in inflight.now..MaxClock :
        PutTwice(R, t, later).store = PutOnce(R, t).store

\* a backfill that read the snapshot of one putAll wrote its record after
\* the next putAll had written its own: the entry is the older record, whole
C30_Witness ==
    /\ last.op = "getByCode" /\ last.path = "fill"
    /\ inflight.put.pc = "done" /\ inflight.put.ret
    /\ ~inflight.get.ret.absent
    /\ Present(store, DataKey)
    /\ store[IndividualKey(inflight.get.code)] = raw(inflight.get.ret.val)
    /\ store[DataKey].val[NormalizeIata(inflight.get.code)] # inflight.get.ret.val

\* the same directory was cached twice, the clock advancing in between
C30_WitnessRepeat ==
    /\ inflight.puts = 2 /\ Cardinality(inflight.supplied) = 1
    /\ inflight.put.pc = "done" /\ inflight.put.ret
    /\ store[SyncKey] = isoformat_at(1)

(***************************************************************************)
(* C31.  Concurrent refresh leaves no older record: when no entry expires  *)
(* and no store operation fails, once a successful putAll(R2) and the      *)
(* getByCode calls that ran beside it have completed, the individual entry *)
(* of every code c of R2 holds R2[c], and a getByCode(c) called then       *)
(* returns R2[c].                                                          *)
(***************************************************************************)
\* the putAll has returned success and no getByCode is in progress
RefreshCompleted ==
    /\ inflight.put.pc = "done" /\ inflight.put.ret
    /\ inflight.get.pc \in {"idle", "done"}

C31_RefreshLeavesNewRecord ==
    RefreshCompleted =>
        \A c \in DOMAIN inflight.put.R :
            /\ Present(store, IndividualKey(c))
            /\ store[IndividualKey(c)] = raw(inflight.put.R[c])
            /\ Lookup(store, default_timeout, c, NoGetFault).ret = Some(inflight.put.R[c])

(***************************************************************************)
(* C32.  No stale code after a refresh: when putAll(R2) has just returned  *)
(* success, getByCode(c) returns absent for every code c that is not in    *)
(* R2, whatever individual entries the store held before the call.         *)
(***************************************************************************)
C32_NoStaleCode ==
    (last.op = "putAll" /\ last.path = "ok")
        => \A c \in Codes \ DOMAIN last.arg :
              Lookup(store, default_timeout, c, NoGetFault).ret.absent

\* the entries of the codes that are not in R2 are left as they were: the
\* call writes only the individual keys of the codes of R2
C32_OtherEntriesKept ==
    \A R \in Directories, t \in TimeoutArgs :
      \A f \in PutFaults(variant, R) :
        LET r == PutResult(R, t, f)
        IN  \A c \in Codes \ DOMAIN R :
              /\ IndividualKey(c) \notin r.s.written
              /\ Present(store, IndividualKey(c))
                   => /\ Present(r.s.store, IndividualKey(c))
                      /\ r.s.store[IndividualKey(c)] = store[IndividualKey(c)]

(***************************************************************************)
(* C33.  putAll is all-or-nothing on failure: for every directory, timeout *)
(* and behaviour of the store, when the call returns failure the store     *)
(* holds exactly what it held before the call.                             *)
(***************************************************************************)
C33_AllOrNothing ==
    \A R \in Directories, t \in TimeoutArgs :
      \A f \in PutFaults(variant, R) :
        LET r == PutResult(R, t, f)
        IN  ~r.ret => r.s.store = store

\* a failed call changed the store exactly when its bulk write succeeded:
\* the failure is then the write of the timestamp raising, and the snapshot
\* is the one of the call
C33_FailureAfterBulkKeepsWrites ==
    \A R \in Directories, t \in TimeoutArgs :
      \A f \in PutFaults(variant, R) :
        LET r == PutResult(R, t, f)
        IN  (~r.ret /\ BulkWrite(t, f) = "true")
              => /\ SyncWrite(t, f) = "raise"
                 /\ DataKey \in r.s.written
                 /\ Present(r.s.store, DataKey)
                 /\ r.s.store[DataKey].val = R

(***************************************************************************)
(* C34.  A failed backfill write does not lose the lookup: in every cache  *)
(* state of cache_service.py where the individual entry of the normalized  *)
(* code is missing and the bulk snapshot contains the code, getByCode      *)
(* returns the record of the snapshot whether the backfill cache.set       *)
(* succeeds, returns false or raises.                                      *)
(***************************************************************************)
\* the store answers both reads; the backfill write ends as `out`
BackfillFault(out) == [ind |-> "ok", bulk |-> "ok", fill |-> out]

C34_FailedBackfillReturnsRecord ==
    variant = "cache_service" =>
      \A code \in InputStrings, out \in SetOutcomes :
        LET r == Lookup(store, default_timeout, code, BackfillFault(out))
        IN  (~Present(store, IndividualKey(code)) /\ BulkHas(store, code))
            => r.ret = Some(Bulk(store).val[NormalizeIata(code)])

\* a backfill write the store refuses leaves the lookup its record and the
\* store as it was; only a write that raises loses it
C34_RefusedBackfillReturnsRecord ==
    variant = "cache_service" =>
      \A code \in InputStrings, out \in SetOutcomes :
        LET r == Lookup(store, default_timeout, code, BackfillFault(out))
        IN  (~Present(store, IndividualKey(code)) /\ BulkHas(store, code))
            => /\ SetResult(default_timeout, out) # "raise"
                    => r.ret = Some(Bulk(store).val[NormalizeIata(code)])
               /\ SetResult(default_timeout, out) = "false" => r.s.store = store
               /\ SetResult(default_timeout, out) = "raise"
                    => r.ret = None /\ r.s.store = store

(***************************************************************************)
(* C35.  Cache keys never collide: in every deployment the bulk-snapshot   *)
(* key, the last-sync key and the keys of the codes are pairwise distinct, *)
(* and after a putAll whose writes all succeed the bulk-snapshot key holds *)
(* the directory of the call, not the timestamp or a record.               *)
(***************************************************************************)
\* the keys the service uses: the two fixed ones and one per code
KeysPairwiseDistinct ==
    /\ DataKey # SyncKey
    /\ \A c \in InputStrings \cup Codes :
          individual_key(variant, configured, c) \notin {DataKey, SyncKey}
    /\ \A c, d \in InputStrings \cup Codes :
          c # d => individual_key(variant, configured, c)
                     # individual_key(variant, configured, d)

C35_KeysNeverCollide ==
    /\ KeysPairwiseDistinct
    /\ \A R \in Directories, t \in TimeoutArgs :
          \A f \in PutFaults(variant, R) :
            LET r == PutResult(R, t, f)
            IN  r.ret => r.s.store[DataKey].val = R

\* the keys collide in one deployment only: services.py without CACHE_KEYS
C35_KeysDistinctElsewhere ==
    (configured \/ variant = "cache_service") => C35_KeysNeverCollide

(***************************************************************************)
(* C36.  One default ttl per instance: for every directory and behaviour   *)
(* of the store, a putAll without explicit ttl called in the current       *)
(* state, the same call made again after it, and a backfill write all use  *)
(* the same ttl, which is a number of seconds, and the configured one when *)
(* the cache timeouts are configured.                                      *)
(***************************************************************************)
\* the same call made again by the instance, after the first one
PutAgain(R, t, f) ==
    cache_airports_data(variant, PutResult(R, t, f).s.store, configured,
                        DefaultAfterPut, R, t, f)

\* the ttl values a lookup that backfills hands to the store
BackfillTimeouts(st, dflt) ==
    UNION {Lookup(st, dflt, c, NoGetFault).s.timeouts : c \in Codes}

C36_OneDefaultTtl ==
    \A R \in Directories :
      \A f \in PutFaults(variant, R) :
        LET first == PutResult(R, NoTimeout, f)
            later == PutAgain(R, NoTimeout, f)
            ttls  == first.s.timeouts \cup later.s.timeouts
                       \cup BackfillTimeouts(store, default_timeout)
                       \cup BackfillTimeouts(first.s.store, DefaultAfterPut)
        IN  /\ Cardinality(ttls) <= 1
            /\ \A ttl \in ttls : ttl.isnum
            /\ configured => ttls \subseteq {Seconds(ConfiguredTimeout)}

\* services.py with CACHE_TIMEOUTS configured is the deployment where the
\* default ttl is one number
C36_ConfiguredServicesTtl ==
    (configured /\ variant = "services") => C36_OneDefaultTtl

(***************************************************************************)
(* C37.  No search has the same airport at both ends: for every pair of    *)
(* origin and destination strings, surrounding blanks included, and every  *)
(* cache state, a request that passes the checks of the parameters and     *)
(* resolves both airports has resolved two different records, those of two *)
(* different codes, so that the envelope built from them has different     *)
(* airports at its ends.                                                   *)
(***************************************************************************)
\* requests with valid dates and any two strings as origin and destination
SpelledRequests ==
    {[origin |-> o, destination |-> d,
      departure_date |-> Date(Today), return_date |-> Date(MaxDay)] :
        o \in InputStrings, d \in InputStrings}

\* the view went past line 58: both lookups returned a record
ResolvedBoth(r) == r.status # 400 /\ Len(r.lookups) = 2

C37_SameAirportOnlyByBlanks ==
    \A req \in SpelledRequests, e \in IssuedFaults :
        LET r == SearchResult(req, e)
        IN  (ResolvedBoth(r) /\ r.lookups[1] = r.lookups[2])
            => /\ upper(req.origin) # upper(req.destination)
               /\ strip(upper(req.origin)) = strip(upper(req.destination))

(***************************************************************************)
(* C38.  Every search request ends in exactly one response and no          *)
(* exception leaves flight_search: for every request, cache state, store   *)
(* behaviour and provider behaviour the outcome is a successful envelope   *)
(* (200), a client error (400, a text body) or a server error (500, the    *)
(* fixed JSON body), and the view calls the provider for the outbound leg  *)
(* at most once and for the return leg at most once.                       *)
(***************************************************************************)
\* the shape of the one response a run of the view returned
OneResponse(r) ==
    /\ r.status \in {200, 400, 500}
    /\ r.status = 200 => r.body.content_type = "application/json" /\ r.body.error = ""
    /\ r.status = 400
         => /\ r.body.content_type = "text/html"
            /\ r.error \in ValidationErrors \cup {"Invalid airport code"}
    /\ r.status = 500 => r.body = JsonBody("Internal server error", <<>>, <<>>)
    /\ r.calls \in 0..2

C38_OneResponse ==
    /\ \A req \in SearchRequests, e \in SearchFaults : OneResponse(SearchResult(req, e))
    /\ \A req \in LegRequests, p1 \in IssuedProviderOutcomes, p2 \in IssuedProviderOutcomes :
          LET r == LegsResult(req, p1, p2)
              steps == search_legs_steps(p1, p2)
          IN  /\ OneResponse(r)
              /\ Count(steps, LAMBDA x : x = "call_outbound") <= 1
              /\ Count(steps, LAMBDA x : x = "call_return") <= 1
              /\ r.calls = CallsIn(steps)
              /\ Count(steps, LAMBDA x : x = "respond") = IF r.status = 200 THEN 1 ELSE 0
    /\ last.op = "search"
         => last.path \in ValidationErrors
                           \cup {"Invalid airport code", "Internal server error", ""}

\* a request was answered by the except clause
C38_Witness == last.op = "search" /\ last.path = "Internal server error"

\* a request was answered with a client error after a lookup
C38_WitnessClientError ==
    /\ last.op = "search" /\ last.path = "Invalid airport code"
    /\ store # <<>>

====
